---- MODULE Spec2Model ----
(***************************************************************************)
(* A model of tunnel-core: the connection manager with its per-connection  *)
(* frame loop and stream table, the domain registry, the quota limiter and *)
(* the HTTP router.  Goroutines are threads with a program counter; a step *)
(* is the code between two synchronisation points (a mutex acquisition, a  *)
(* channel operation, a select).                                           *)
(***************************************************************************)
EXTENDS Integers, Sequences, FiniteSets, TLC

\* ------------------------------------------------------------ bounds
NumConns == 1
\* connection ids beyond those whose agent is modelled: known to the manager and
\* the registry, their agents silent
NumSpareConns == 1
MaxStreamId == 1
MaxFramesConn == 2
MaxFramesData == 4
\* frames of a flooding agent: OPEN_STREAM, DataInCap enqueued, one held by the
\* frame loop, FrameChCap waiting, one held by the reader
MaxFramesFlood == 23
NumClosers == 1
MaxConnections == 2
NumRouters == 2
MaxFramesRouter == 2
NumRegCallers == 2
MaxRegCalls == 4
\* HandleAuth calls in one run
MaxAuthCalls == 2
\* frames the agent sends while a response is awaited
MaxFramesResponse == 3
\* last-access goroutines started by GetTunnel and not yet run
MaxPendingRefreshes == 2
NumQuotaCallers == 2
MaxQuotaCalls == 2
MaxLimit == 2
MaxStreams == 1
TicksPerSecond == 2
MaxTime == 3
MaxBucketCalls == 6

\* ------------------------------------------------- program constants
FrameChCap == 10
DataInCap == 10
FirstStreamID == 1
StreamIDControl == 0
StatusOK == 200
StatusNoContent == 204
StatusBadRequest == 400
StatusNotFound == 404
StatusTooManyRequests == 429
StatusInternalServerError == 500
StatusServiceUnavailable == 503

ConnIds == 1..NumConns
AllConns == 1..(NumConns + NumSpareConns)
StreamIds == 1..MaxStreamId
Closers == 1..NumClosers
Routers == 1..NumRouters
RegCallers == 1..NumRegCallers
QuotaCallers == 1..NumQuotaCallers
BaseDomain == "localhost"
Subdomains == {"", "example"}
DataPayloads == {"ab", "cd"}

VARIABLES
    \* Manager
    connections,    \* keys of Manager.connections
    registered,     \* connection ids handed to RegisterConnection so far
    cbCount,        \* per connection id: invocations of onConnectionClosed
    \* Connection
    closed, ctxDone, sockClosed, streams, nextStreamID, streamsMu, hbExpired,
    closedBy,       \* history: the thread whose Close set the closed flag
    \* Stream objects, by connection and stream id
    sState, dataIn, closeFired, consumed,
    closeCause,     \* history: what closed the stream ("END_STREAM", "CLOSE", "Close")
    \* inbound path: agent -> reader goroutine -> frameCh -> frame loop
    frameCh, errCh, nSent, ended, arrived,
    \* threads
    pc, frame, exists, tconn,
    \* Registry
    tunnels, connTunnels,
    tunnelsMu,      \* the thread holding Registry.tunnelsMu, or Free
    regDom,         \* per registry caller: the full domain its call works on
    regDoms,        \* per registry caller: UnregisterConnectionTunnels' copied domains
    regRet,         \* per registry caller: where UnregisterTunnel returns to
    regCalls,       \* registry calls started so far
    \* Router, per request
    encoding,       \* per connection: the threads inside v1.Encode(c.Conn, ...)
    outWire,        \* per connection: the frames written to the socket, in order
    rStream, rStatus, rBody, rResp, rDeadline,
    rSent,          \* history: the frames the request has put on the socket
    rLive,          \* history: the stream table when the request's id was allocated
    rLimiter,       \* Router.limiter is not nil
    rHost,          \* the request's Host header
    rHeld,          \* the deferred ReleaseStream of the request is pending
    rAcq,           \* history: the AcquireStream calls of the request that succeeded
    rRel,           \* history: the ReleaseStream calls made for the request
    rTrail,         \* history: the admission stages the request went through
    rChecks,        \* history: what each check of the request's CheckRequest saw
    rErr,           \* the error the request's CheckRequest / AcquireStream returned
    \* Limiter
    agentLimit, domainLimit, qCalls,
    agentBucket, domainBucket,  \* the TokenBucket of the agent's and the domain's limit
    qRes,           \* history, per caller: how its latest AcquireStream / ReleaseStream ended
    qDid,           \* history, per caller: what its latest AcquireStream added to the counters
    qBefore,        \* history, per caller: the counters when its latest AcquireStream began
    qAlone,         \* history, per caller: no other limiter call has run since then
    \* TokenBucket
    now,            \* the clock, in ticks of 1/TicksPerSecond second
    tb,             \* a token bucket; tokens are counted in 1/TicksPerSecond token
    tbPrev,         \* history: the bucket before its latest call
    tbLog,          \* history: the calls made on the bucket
    teardowns,      \* history: per connection, the Close invocations that went past the closed check
    streamClosedCalls,  \* history: per connection and stream, the invocations of onStreamClosed
    maxConnections, \* Manager.maxConnections
    rcLog,          \* history: the latest RegisterConnection call, its error and the map before it
    tunnelMeta,     \* Tunnel.Metadata of the record of each full domain
    tunnelAccess,   \* Tunnel.LastAccess of the record of each full domain, in ticks
    regLog,         \* history: the latest RegisterTunnel call, what it found and what it returned
    unregLog,       \* history: the latest UnregisterTunnel call, what it found and its error
    lastOp,         \* history: per full domain, what the latest update of the forward index left
    uct,            \* history: per caller, its latest UnregisterConnectionTunnels call
    validateToken,  \* Authenticator.validateToken: the injected validator, or none
    authLog,        \* history: the HandleAuth calls made, each with its frame and its results
    domainMu,       \* Limiter.domainMu: its read holds, its writer, the writers announced
    limiterFatal,   \* the runtime has stopped the process with a fatal error
    gdlLog,         \* history, per caller: what its latest GetDomainLimit / GetAgentLimit returned
    ctlErr,         \* history, per connection: what handleControlFrame returned last
    pendingRefresh, \* the goroutines GetTunnel has started and that have not run yet
    gtLog,          \* history: the latest GetTunnel call and what it returned
    acceptor        \* handleAgentConnection, per socket: where it is, and what it sent and got

mgrVars == <<connections, registered, cbCount>>
connVars == <<closed, ctxDone, sockClosed, streams, nextStreamID, streamsMu, hbExpired,
              closedBy>>
strVars == <<sState, dataIn, closeFired, consumed, closeCause>>
inVars == <<frameCh, errCh, nSent, ended, arrived>>
thrVars == <<pc, frame, exists, tconn>>
regVars == <<tunnels, connTunnels>>
rgVars == <<tunnelsMu, regDom, regDoms, regRet, regCalls>>
rtVars == <<encoding, outWire, rStream, rStatus, rBody, rResp, rDeadline, rSent, rLive>>
rtVarsButStatus == <<encoding, outWire, rStream, rBody, rResp, rDeadline, rSent, rLive>>
qVars == <<agentLimit, domainLimit, qCalls, agentBucket, domainBucket, qRes, qDid, qBefore,
          qAlone>>
tbVars == <<now, tb, tbPrev, tbLog>>
raVars == <<rLimiter, rHost, rHeld, rAcq, rRel, rTrail, rChecks, rErr>>
rcVars == <<maxConnections, rcLog>>
hvVars == <<teardowns, streamClosedCalls, rcVars>>
rhVars == <<tunnelMeta, tunnelAccess, regLog, unregLog, lastOp, uct>>
hsVars == <<validateToken, authLog>>
lkVars == <<domainMu, limiterFatal, gdlLog>>
refVars == <<pendingRefresh, gtLog>>
svcVars == <<hsVars, lkVars, ctlErr, refVars, acceptor>>
\* svcVars but one of its groups
svcButHs == <<lkVars, ctlErr, refVars, acceptor>>
svcButLk == <<hsVars, ctlErr, refVars, acceptor>>
svcButCtl == <<hsVars, lkVars, refVars, acceptor>>
svcButRef == <<hsVars, lkVars, ctlErr, acceptor>>
svcButAcceptor == <<hsVars, lkVars, ctlErr, refVars>>
extVars == <<rgVars, rtVars, qVars, tbVars, raVars, hvVars, rhVars, svcVars>>
vars == <<mgrVars, connVars, strVars, inVars, thrVars, regVars, extVars>>

\* ---------------------------------------------------------- threads
LoopT(c) == <<"loop", c>>
ReaderT(c) == <<"reader", c>>
CloserT(k) == <<"closer", k>>
RouterT(r) == <<"router", r>>
RegT(i) == <<"registry", i>>
QuotaT(i) == <<"quota", i>>
Threads == {LoopT(c) : c \in AllConns} \cup {ReaderT(c) : c \in AllConns}
           \cup {CloserT(k) : k \in Closers} \cup {RouterT(r) : r \in Routers}
           \cup {RegT(i) : i \in RegCallers} \cup {QuotaT(i) : i \in QuotaCallers}
Free == <<"free", 0>>
NoFrame == [type |-> "NONE", sid |-> 0, end |-> FALSE, payload |-> ""]
NoTunnel == [conn |-> 0, agent |-> 0]
\* no RegisterConnection call made yet
NoCall == [id |-> 0, err |-> "none", before |-> {}, seen |-> {}]
\* no TokenBucket constructed yet
NoBucket == [made |-> FALSE, capacity |-> 0, tokens |-> 0, refillRate |-> 0, lastRefill |-> 0]
\* no entry in Limiter.agentLimits / Limiter.domainLimits for the key
NoLimit == [set |-> FALSE, max |-> 0, cur |-> 0]

\* ----------------------------------------------------------- frames
Frame(t, s, e, p) == [type |-> t, sid |-> s, end |-> e, payload |-> p]
ControlFrames == {Frame(t, StreamIDControl, FALSE, "") :
                    t \in {"AUTH", "HEARTBEAT", "CLOSE", "ERROR"}}
StreamFrames ==
    {Frame(t, s, FALSE, "") : t \in {"OPEN_STREAM", "CLOSE", "ERROR"}, s \in StreamIds}
    \cup {Frame("DATA", s, FALSE, p) : s \in StreamIds, p \in DataPayloads}
    \cup {Frame("DATA", s, TRUE, "") : s \in StreamIds}
AgentFrames == ControlFrames \cup StreamFrames
\* what the agent sends where the life cycle of a connection is studied: every
\* frame type, one payload
LifecycleFrames == {f \in AgentFrames : f.payload # "cd"}
\* what the agent sends where the control stream is studied: besides, frames of
\* the stream types that carry stream id 0
ControlStreamFrames ==
    LifecycleFrames \cup
    {Frame("OPEN_STREAM", StreamIDControl, FALSE, ""), Frame("DATA", StreamIDControl, FALSE, "ab"),
     Frame("DATA", StreamIDControl, TRUE, "")}
\* what the agent sends where the data path of a stream is studied
DataPathFrames == {f \in StreamFrames : f.type # "ERROR"}
                  \cup {Frame("HEARTBEAT", StreamIDControl, FALSE, "")}
IsControlFrame(f) == f.sid = StreamIDControl
IsEndStream(f) == f.end

\* --------------------------------------------------------- registry
buildFullDomain(subdomain) ==
    IF subdomain = "" THEN BaseDomain ELSE subdomain \o "." \o BaseDomain
FullDomains == {buildFullDomain(s) : s \in Subdomains}

\* The metadata of RegisterTunnel calls: nil, and one map.
NoMeta == "nil"
Metadatas == {NoMeta, "meta"}

\* The registry as a value: [tunnels, connTunnels].
Reg(t, ct) == [tunnels |-> t, connTunnels |-> ct]

\* no UnregisterConnectionTunnels call made yet by a caller
NoUct == [c |-> 0, before |-> Reg(<<>>, <<>>), alone |-> FALSE, active |-> FALSE]

\* Registry.GetTunnel(d): the record of the forward index, NoTunnel for not-found.
GetTunnelOp(t, d) == t[d]

\* UnregisterTunnel's first critical section without the delete.
UnregForwardKeep(t, d) == t
\* UnregisterTunnel's first critical section: delete from the forward index.
UnregForward(t, d) == [t EXCEPT ![d] = NoTunnel]
\* UnregisterTunnel's second critical section: delete d from the reverse entry
\* of the connection the removed record named.
UnregReverse(ct, c, d) == [ct EXCEPT ![c] = @ \ {d}]

UnregisterTunnelOp(r, d) ==
    IF r.tunnels[d] = NoTunnel THEN r
    ELSE Reg(UnregForward(r.tunnels, d),
             UnregReverse(r.connTunnels, r.tunnels[d].conn, d))

RECURSIVE UnregisterAll(_, _)
UnregisterAll(r, domains) ==
    IF domains = {} THEN r
    ELSE LET d == CHOOSE x \in domains : TRUE
         IN UnregisterAll(UnregisterTunnelOp(r, d), domains \ {d})

\* UnregisterConnectionTunnels run with no other registry call in progress.
UnregisterConnectionTunnelsOp(r, c) == UnregisterAll(r, r.connTunnels[c])

RegisterTunnelOp(r, subdomain, c, a) ==
    LET fd == buildFullDomain(subdomain) IN
    IF r.tunnels[fd] # NoTunnel THEN r
    ELSE Reg([r.tunnels EXCEPT ![fd] = [conn |-> c, agent |-> a]],
             [r.connTunnels EXCEPT ![c] = @ \cup {fd}])

\* handleAgentConnection has just been started for a socket.
Accepted == [pc |-> "Decode", agent |-> "", ack |-> "none", err |-> "none"]

\* A sync.RWMutex nobody holds: no read hold, no writer, no writer announced.
RWUnlocked == [readers |-> 0, writer |-> 0, pending |-> {}]
\* No GetDomainLimit / GetAgentLimit call made yet.
NoLookup == [of |-> "none", limit |-> NoLimit, ok |-> FALSE, at |-> NoLimit]

\* -------------------------------------------------------- handshake
\* The tokens of auth payloads: none, and one.
AuthTokens == {"", "tok"}
\* The agent ids a validator may return.
AgentNames == {"tok", "agent-1"}
ErrInvalidToken == "INVALID_TOKEN"
\* What a token validator returns for a token: an agent id, or an error.
ValidatorResults ==
    {[agent |-> a, err |-> "nil"] : a \in AgentNames} \cup {[agent |-> "", err |-> ErrInvalidToken]}
\* An installed validator is a function of the token.
Validators == {[installed |-> TRUE, of |-> f] : f \in [AuthTokens -> ValidatorResults]}
\* Authenticator.validateToken == nil
NoValidator ==
    [installed |-> FALSE, of |-> [tok \in AuthTokens |-> [agent |-> "", err |-> "nil"]]]
\* The validator main installs: any non-empty token is its own agent id.
MainValidator ==
    [installed |-> TRUE,
     of |-> [tok \in AuthTokens |-> IF tok = "" THEN [agent |-> "", err |-> ErrInvalidToken]
                                    ELSE [agent |-> tok, err |-> "nil"]]]

\* A map[string]string is a function from its keys; the empty map.
EmptyMap == [k \in {} |-> ""]
\* for k, v := range src { dst[k] = v }
MergeMap(dst, src) ==
    [k \in DOMAIN dst \cup DOMAIN src |-> IF k \in DOMAIN src THEN src[k] ELSE dst[k]]
\* m[k] = v when the condition holds
PutIf(m, cond, k, v) == IF cond THEN MergeMap(m, [x \in {k} |-> v]) ELSE m

\* json.Marshal of a []string
RECURSIVE MarshalItems(_)
MarshalItems(caps) ==
    IF Len(caps) = 0 THEN ""
    ELSE "\"" \o Head(caps) \o "\"" \o (IF Len(caps) > 1 THEN "," ELSE "") \o MarshalItems(Tail(caps))
MarshalCapabilities(caps) == "[" \o MarshalItems(caps) \o "]"

\* What json.Unmarshal makes of an auth payload: the AuthRequest, or a failure.
AuthRequest(tok, id, ver, caps, meta) ==
    [parsed |-> TRUE, token |-> tok, agent_id |-> id, version |-> ver, capabilities |-> caps,
     metadata |-> meta]
InvalidAuthPayload ==
    [parsed |-> FALSE, token |-> "", agent_id |-> "", version |-> "", capabilities |-> <<>>,
     metadata |-> EmptyMap]
AuthRequests ==
    {AuthRequest(tok, id, ver, caps, meta) :
        tok \in AuthTokens, id \in {"", "mallory"}, ver \in {"", "1.0"},
        caps \in {<<>>, <<"http">>},
        meta \in {EmptyMap, [k \in {"client_agent_id"} |-> "eve"]}}
\* The first frame of an agent: an AUTH control frame with any payload, an AUTH
\* frame on a stream, or a frame of another type.
AuthFrame(t, s, p) == [type |-> t, sid |-> s, payload |-> p]
AuthFrames ==
    {AuthFrame("AUTH", StreamIDControl, p) : p \in AuthRequests \cup {InvalidAuthPayload}}
    \cup {AuthFrame("AUTH", 1, AuthRequest("tok", "", "", <<>>, EmptyMap)),
          AuthFrame("HEARTBEAT", StreamIDControl, InvalidAuthPayload)}

AuthFailure(e) == [agent |-> "", meta |-> EmptyMap, err |-> e]

\* The metadata HandleAuth builds from a request.
AuthMetadata(req) ==
    MergeMap(
        PutIf(PutIf(PutIf(EmptyMap, req.agent_id # "", "client_agent_id", req.agent_id),
                    req.version # "", "client_version", req.version),
              Len(req.capabilities) > 0, "capabilities", MarshalCapabilities(req.capabilities)),
        req.metadata)

\* HandleAuth that takes the agent id of the payload when there is one.
HandleAuthTrusting(v, f) ==
    IF f.type # "AUTH" THEN AuthFailure("INVALID_FRAME_TYPE")
    ELSE IF ~(f.sid = StreamIDControl) THEN AuthFailure("AUTH_MUST_BE_CONTROL_FRAME")
    ELSE IF ~f.payload.parsed THEN AuthFailure("INVALID_AUTH_PAYLOAD")
    ELSE IF ~v.installed THEN AuthFailure("NO_TOKEN_VALIDATOR")
    ELSE IF v.of[f.payload.token].err # "nil" THEN AuthFailure(v.of[f.payload.token].err)
    ELSE [agent |-> IF f.payload.agent_id # "" THEN f.payload.agent_id
                    ELSE v.of[f.payload.token].agent,
          meta |-> AuthMetadata(f.payload), err |-> "nil"]

\* Authenticator.HandleAuth with validator v on frame f: agentID, metadata, err
HandleAuth(v, f) ==
    IF f.type # "AUTH" THEN AuthFailure("INVALID_FRAME_TYPE")
    ELSE IF ~(f.sid = StreamIDControl) THEN AuthFailure("AUTH_MUST_BE_CONTROL_FRAME")
    ELSE IF ~f.payload.parsed THEN AuthFailure("INVALID_AUTH_PAYLOAD")
    ELSE IF ~v.installed THEN AuthFailure("NO_TOKEN_VALIDATOR")
    ELSE IF v.of[f.payload.token].err # "nil" THEN AuthFailure(v.of[f.payload.token].err)
    ELSE [agent |-> v.of[f.payload.token].agent, meta |-> AuthMetadata(f.payload), err |-> "nil"]

\* ------------------------------------------------------------- Init
InitState ==
    /\ connections = {}
    /\ registered = {}
    /\ cbCount = [c \in AllConns |-> 0]
    /\ closed = [c \in AllConns |-> FALSE]
    /\ ctxDone = [c \in AllConns |-> FALSE]
    /\ sockClosed = [c \in AllConns |-> FALSE]
    /\ streams = [c \in AllConns |-> {}]
    /\ nextStreamID = [c \in AllConns |-> FirstStreamID]
    /\ streamsMu = [c \in AllConns |-> Free]
    /\ hbExpired = [c \in AllConns |-> FALSE]
    /\ closedBy = [c \in AllConns |-> Free]
    /\ sState = [c \in AllConns |-> [s \in StreamIds |-> "NONE"]]
    /\ dataIn = [c \in AllConns |-> [s \in StreamIds |-> <<>>]]
    /\ closeFired = [c \in AllConns |-> [s \in StreamIds |-> FALSE]]
    /\ consumed = [c \in AllConns |-> [s \in StreamIds |-> <<>>]]
    /\ closeCause = [c \in AllConns |-> [s \in StreamIds |-> "none"]]
    /\ frameCh = [c \in AllConns |-> <<>>]
    /\ errCh = [c \in AllConns |-> FALSE]
    /\ nSent = [c \in AllConns |-> 0]
    /\ ended = [c \in AllConns |-> {}]
    /\ arrived = [c \in AllConns |-> [s \in StreamIds |-> <<>>]]
    /\ pc = [t \in Threads |-> "idle"]
    /\ frame = [t \in Threads |-> NoFrame]
    /\ exists = [c \in AllConns |-> FALSE]
    /\ tconn = [t \in Threads |-> IF t[1] \in {"loop", "reader"} THEN t[2] ELSE 0]
    /\ tunnels = [d \in FullDomains |-> NoTunnel]
    /\ connTunnels = [c \in AllConns |-> {}]
    /\ tunnelsMu = Free
    /\ regDom = [i \in RegCallers |-> ""]
    /\ regDoms = [i \in RegCallers |-> {}]
    /\ regRet = [i \in RegCallers |-> "idle"]
    /\ regCalls = 0
    /\ encoding = [c \in AllConns |-> {}]
    /\ outWire = [c \in AllConns |-> <<>>]
    /\ rStream = [r \in Routers |-> 0]
    /\ rStatus = [r \in Routers |-> 0]
    /\ rBody = [r \in Routers |-> ""]
    /\ rResp = [r \in Routers |-> ""]
    /\ rDeadline = [r \in Routers |-> FALSE]
    /\ rSent = [r \in Routers |-> <<>>]
    /\ rLive = [r \in Routers |-> {}]
    /\ agentLimit = NoLimit
    /\ domainLimit = NoLimit
    /\ qCalls = [i \in QuotaCallers |-> 0]
    /\ agentBucket = NoBucket
    /\ domainBucket = NoBucket
    /\ qRes = [i \in QuotaCallers |-> "none"]
    /\ qDid = [i \in QuotaCallers |-> [agent |-> 0, domain |-> 0]]
    /\ qBefore = [i \in QuotaCallers |-> [agent |-> 0, domain |-> 0]]
    /\ qAlone = [i \in QuotaCallers |-> FALSE]
    /\ now = 0
    /\ tb = NoBucket
    /\ tbPrev = NoBucket
    /\ tbLog = <<>>
    /\ rHost = [r \in Routers |-> ""]
    /\ rHeld = [r \in Routers |-> FALSE]
    /\ rAcq = [r \in Routers |-> 0]
    /\ rRel = [r \in Routers |-> 0]
    /\ rTrail = [r \in Routers |-> <<>>]
    /\ rChecks = [r \in Routers |-> <<>>]
    /\ rErr = [r \in Routers |-> "none"]
    /\ teardowns = [c \in AllConns |-> 0]
    /\ streamClosedCalls = [c \in AllConns |-> [s \in StreamIds |-> 0]]
    /\ rcLog = NoCall
    /\ tunnelMeta = [d \in FullDomains |-> NoMeta]
    /\ tunnelAccess = [d \in FullDomains |-> 0]
    /\ regLog = [n |-> 0, fd |-> "", conn |-> 0, meta |-> NoMeta, at |-> 0,
                 existing |-> NoTunnel, outcome |-> "none", ret |-> NoTunnel, seen |-> {}]
    /\ unregLog = [d |-> "", existing |-> NoTunnel, err |-> "none"]
    /\ lastOp = [d \in FullDomains |-> NoTunnel]
    /\ uct = [i \in RegCallers |-> NoUct]
    /\ authLog = <<>>
    /\ domainMu = RWUnlocked
    /\ limiterFatal = FALSE
    /\ gdlLog = [i \in QuotaCallers |-> NoLookup]
    /\ ctlErr = [c \in AllConns |-> "none"]
    /\ pendingRefresh = <<>>
    /\ acceptor = [c \in AllConns |-> Accepted]
    /\ gtLog = [n |-> 0, d |-> "", ret |-> NoTunnel, ok |-> FALSE, pending |-> 0]

\* NewRouter(reg, connManager, nil, timeout): a router without a limiter
Init ==
    InitState /\ rLimiter = FALSE /\ maxConnections = MaxConnections /\ validateToken = MainValidator
\* NewRouter(reg, connManager, limiter, timeout)
InitLimited ==
    InitState /\ rLimiter = TRUE /\ maxConnections = MaxConnections /\ validateToken = MainValidator
\* NewManager(maxConnections, heartbeatTimeout) with any limit up to MaxConnections
InitManager ==
    /\ InitState /\ rLimiter = FALSE /\ maxConnections \in 1..MaxConnections
    /\ validateToken = MainValidator
\* NewAuthenticator(validateToken, authTimeout) with any validator, or none
InitAuth ==
    /\ InitState /\ rLimiter = FALSE /\ maxConnections = MaxConnections
    /\ validateToken \in Validators \cup {NoValidator}

\* ----------------------------------------------------- Authenticator
\* A caller hands frame f to HandleAuth.
HandleAuthCall(f) ==
    /\ Len(authLog) < MaxAuthCalls
    /\ authLog' = Append(authLog, [frame |-> f, res |-> HandleAuth(validateToken, f)])
    /\ UNCHANGED <<mgrVars, connVars, strVars, inVars, thrVars, regVars, rgVars, rtVars, qVars,
                   tbVars, raVars, hvVars, rhVars, validateToken, svcButHs>>

\* ------------------------------------------------ Manager, Connection

\* Manager.RegisterConnection; handleConnection and its reader goroutine start.
\* Connection ids are unique per accepted socket (agent id + nanosecond clock).
RegisterConnection(c) ==
    /\ c \notin registered
    /\ Cardinality(connections) < maxConnections
    /\ c \notin connections
    /\ connections' = connections \cup {c}
    /\ registered' = registered \cup {c}
    /\ pc' = [pc EXCEPT ![LoopT(c)] = "select", ![ReaderT(c)] = "r_decode"]
    /\ UNCHANGED <<extVars, cbCount, connVars, strVars, inVars, frame, exists, tconn, regVars>>

\* RegisterConnection's error for a map of n entries, the limit max, and an id
\* that is (dup) or is not in the map, without the check of the limit.
RegisterConnectionErrorNoMax(n, max, dup) ==
    IF dup THEN "CONNECTION_EXISTS" ELSE "nil"

\* RegisterConnection's error for a map of n entries, the limit max, and an id
\* that is (dup) or is not in the map: the limit is checked first.
RegisterConnectionError(n, max, dup) ==
    IF n >= max THEN "MAX_CONNECTIONS"
    ELSE IF dup THEN "CONNECTION_EXISTS" ELSE "nil"

\* Manager.RegisterConnection, the whole call under connsMu, for an id that is new
\* or is in the map (the id of a closed connection is not used again).
RegisterConnectionCall(c) ==
    /\ c \in registered => c \in connections
    /\ LET err == RegisterConnectionError(Cardinality(connections), maxConnections,
                                          c \in connections) IN
        /\ rcLog' = [id |-> c, err |-> err, before |-> connections,
                     seen |-> rcLog.seen \cup {err}]
        /\ IF err = "nil"
           THEN /\ connections' = connections \cup {c}
                /\ registered' = registered \cup {c}
                /\ pc' = [pc EXCEPT ![LoopT(c)] = "select", ![ReaderT(c)] = "r_decode"]
           ELSE UNCHANGED <<connections, registered, pc>>
    /\ UNCHANGED <<rgVars, rtVars, qVars, tbVars, raVars, teardowns, streamClosedCalls, rhVars, svcVars,
                   maxConnections, cbCount, connVars, strVars, inVars, frame, exists, tconn, regVars>>

\* More than heartbeatTimeout has passed since LastHeartbeat.
TimePasses(c) ==
    /\ c \in registered
    /\ pc[LoopT(c)] # "done"
    /\ ~hbExpired[c]
    /\ hbExpired' = [hbExpired EXCEPT ![c] = TRUE]
    /\ UNCHANGED <<extVars, mgrVars, closed, ctxDone, sockClosed, streams, nextStreamID, streamsMu,
                   closedBy, strVars, inVars, thrVars, regVars>>

\* The frames the agent may send next: at most max frames per connection, and
\* never an OPEN_STREAM for a stream id it has already ended or closed.
AgentMaySend(c, f, max) ==
    /\ nSent[c] < max
    /\ f.type = "OPEN_STREAM" => f.sid \notin ended[c]

\* reader goroutine: v1.Decode returns the next frame the agent sent
ReaderDecode(c, f, max) ==
    /\ pc[ReaderT(c)] = "r_decode"
    /\ ~sockClosed[c]
    /\ AgentMaySend(c, f, max)
    /\ nSent' = [nSent EXCEPT ![c] = @ + 1]
    /\ ended' = [ended EXCEPT ![c] =
                    IF ~IsControlFrame(f) /\ (f.type = "CLOSE" \/ (f.type = "DATA" /\ f.end))
                    THEN @ \cup {f.sid} ELSE @]
    /\ frame' = [frame EXCEPT ![ReaderT(c)] = f]
    /\ arrived' = [arrived EXCEPT ![c] =
            IF f.type = "DATA" /\ ~IsControlFrame(f)
            THEN [@ EXCEPT ![f.sid] = Append(@, f)] ELSE @]
    /\ pc' = [pc EXCEPT ![ReaderT(c)] = "r_deliver"]
    /\ UNCHANGED <<extVars, mgrVars, connVars, strVars, frameCh, errCh, exists, tconn, regVars>>

\* reader goroutine: v1.Decode fails (the read deadline passes with no frame, the
\* agent hangs up, or the socket is closed); the error goes to errCh and the reader returns.
ReaderDecodeErr(c) ==
    /\ pc[ReaderT(c)] = "r_decode"
    /\ errCh' = [errCh EXCEPT ![c] = TRUE]
    /\ pc' = [pc EXCEPT ![ReaderT(c)] = "done"]
    /\ UNCHANGED <<extVars, mgrVars, connVars, strVars, frameCh, nSent, ended, arrived,
                   frame, exists, tconn, regVars>>

\* reader goroutine: select { frameCh <- frame ; <-c.ctx.Done() }
ReaderDeliver(c) ==
    /\ pc[ReaderT(c)] = "r_deliver"
    /\ \/ /\ Len(frameCh[c]) < FrameChCap
          /\ frameCh' = [frameCh EXCEPT ![c] = Append(@, frame[ReaderT(c)])]
          /\ pc' = [pc EXCEPT ![ReaderT(c)] = "r_decode"]
       \/ /\ ctxDone[c]
          /\ pc' = [pc EXCEPT ![ReaderT(c)] = "done"]
          /\ UNCHANGED frameCh
    /\ frame' = [frame EXCEPT ![ReaderT(c)] = NoFrame]
    /\ UNCHANGED <<extVars, mgrVars, connVars, strVars, errCh, nSent, ended, arrived,
                   exists, tconn, regVars>>

\* ----------------------------------------------- Manager.handleConnection

\* handleConnection returns: the deferred c.Close() runs on the loop's goroutine.
LoopExit(c) == [pc EXCEPT ![LoopT(c)] = "Close"]

\* select case <-c.ctx.Done()
LoopCtxDone(c) ==
    /\ pc[LoopT(c)] = "select"
    /\ ctxDone[c]
    /\ pc' = LoopExit(c)
    /\ UNCHANGED <<extVars, mgrVars, connVars, strVars, inVars, frame, exists, tconn, regVars>>

\* select case <-ticker.C with time.Since(c.LastHeartbeat) > heartbeatTimeout
\* (a tick before the timeout changes nothing)
LoopTick(c) ==
    /\ pc[LoopT(c)] = "select"
    /\ hbExpired[c]
    /\ pc' = LoopExit(c)
    /\ UNCHANGED <<extVars, mgrVars, connVars, strVars, inVars, frame, exists, tconn, regVars>>

\* select case err := <-errCh
LoopErr(c) ==
    /\ pc[LoopT(c)] = "select"
    /\ errCh[c]
    /\ errCh' = [errCh EXCEPT ![c] = FALSE]
    /\ pc' = LoopExit(c)
    /\ UNCHANGED <<extVars, mgrVars, connVars, strVars, frameCh, nSent, ended, arrived,
                   frame, exists, tconn, regVars>>

\* Connection.updateHeartbeat
updateHeartbeat(c) == [hbExpired EXCEPT ![c] = FALSE]

\* A mutation of handleControlFrame: a type it does not know is let through.
handleControlFrameLenient(f) ==
    CASE f.type \in {"AUTH", "HEARTBEAT"} -> "nil"
      [] f.type = "CLOSE" -> "CONNECTION_CLOSED_BY_AGENT"
      [] OTHER -> "nil"

\* Manager.handleControlFrame: the error it returns
handleControlFrame(f) ==
    CASE f.type = "AUTH" -> "nil"
      [] f.type = "HEARTBEAT" -> "nil"
      [] f.type = "CLOSE" -> "CONNECTION_CLOSED_BY_AGENT"
      [] OTHER -> "INVALID_CONTROL_FRAME"

\* Manager.handleControlFrame: TRUE when it returns an error
ControlFrameFails(f) == handleControlFrame(f) # "nil"

\* select case frame := <-frameCh, then handleFrame: a control frame is handled
\* at once, a stream frame goes on to handleStreamFrame.
LoopRecvFrame(c) ==
    /\ pc[LoopT(c)] = "select"
    /\ frameCh[c] # <<>>
    /\ frameCh' = [frameCh EXCEPT ![c] = Tail(@)]
    /\ LET f == Head(frameCh[c]) IN
        IF IsControlFrame(f)
        THEN /\ hbExpired' = IF ControlFrameFails(f) THEN hbExpired ELSE updateHeartbeat(c)
             /\ pc' = IF ControlFrameFails(f) THEN LoopExit(c) ELSE pc
             /\ ctlErr' = [ctlErr EXCEPT ![c] = handleControlFrame(f)]
             /\ UNCHANGED frame
        ELSE /\ frame' = [frame EXCEPT ![LoopT(c)] = f]
             /\ pc' = [pc EXCEPT ![LoopT(c)] = "hsf_lookup"]
             /\ UNCHANGED <<hbExpired, ctlErr>>
    /\ UNCHANGED <<rgVars, rtVars, qVars, tbVars, raVars, hvVars, rhVars, svcButCtl, mgrVars, closed, ctxDone, sockClosed, streams, nextStreamID, streamsMu,
                   closedBy, strVars, errCh, nSent, ended, arrived, exists, tconn, regVars>>

\* handleStreamFrame: where the switch goes after the lookup
AfterLookup(f, ex) ==
    CASE f.type = "OPEN_STREAM" -> IF ex THEN "Close" ELSE "hsf_create"
      [] f.type = "DATA" -> IF ex THEN "hsf_enqueue" ELSE "Close"
      [] f.type = "CLOSE" -> IF ex THEN "hsf_setState" ELSE "select"
      [] OTHER -> "Close"

\* handleStreamFrame: stream, exists := c.streams[frame.StreamID] under streamsMu
StreamLookup(c) ==
    /\ pc[LoopT(c)] = "hsf_lookup"
    /\ streamsMu[c] = Free
    /\ LET f == frame[LoopT(c)]
           ex == f.sid \in streams[c]
       IN /\ exists' = [exists EXCEPT ![c] = ex]
          /\ pc' = [pc EXCEPT ![LoopT(c)] = AfterLookup(f, ex)]
    /\ UNCHANGED <<extVars, mgrVars, connVars, strVars, inVars, frame, tconn, regVars>>

\* Connection.createStream (case FrameOpenStream)
createStream(c) ==
    /\ pc[LoopT(c)] = "hsf_create"
    /\ streamsMu[c] = Free
    /\ LET s == frame[LoopT(c)].sid IN
        /\ streams' = [streams EXCEPT ![c] = @ \cup {s}]
        /\ sState' = [sState EXCEPT ![c][s] = "INIT"]
        /\ dataIn' = [dataIn EXCEPT ![c][s] = <<>>]
        /\ closeFired' = [closeFired EXCEPT ![c][s] = FALSE]
        /\ closeCause' = [closeCause EXCEPT ![c][s] = "none"]
    /\ pc' = [pc EXCEPT ![LoopT(c)] = "select"]
    /\ UNCHANGED <<extVars, mgrVars, closed, ctxDone, sockClosed, nextStreamID, streamsMu, hbExpired, closedBy,
                   consumed, inVars, frame, exists, tconn, regVars>>

\* A mutation of Enqueue: the payload goes to the head of the queue.
EnqueueAtHead(q, payload) == <<payload>> \o q

\* The queue after stream.dataIn <- payload.
Enqueue(q, payload) == Append(q, payload)

\* case FrameData: select { stream.dataIn <- frame.Payload ; <-stream.closeCh ;
\* <-c.ctx.Done() }.  Go picks any ready case.
StreamEnqueue(c) ==
    /\ pc[LoopT(c)] = "hsf_enqueue"
    /\ LET f == frame[LoopT(c)] IN
       \/ /\ Len(dataIn[c][f.sid]) < DataInCap
          /\ dataIn' = [dataIn EXCEPT ![c][f.sid] = Enqueue(@, f.payload)]
          /\ pc' = [pc EXCEPT ![LoopT(c)] =
                        IF IsEndStream(f) THEN "hsf_setState" ELSE "select"]
       \/ /\ closeFired[c][f.sid]
          /\ pc' = LoopExit(c)
          /\ UNCHANGED dataIn
       \/ /\ ctxDone[c]
          /\ pc' = LoopExit(c)
          /\ UNCHANGED dataIn
    /\ UNCHANGED <<extVars, mgrVars, connVars, sState, closeFired, consumed, closeCause, inVars, frame,
                   exists, tconn, regVars>>

\* Stream.setState(StreamStateClosed)
setState(c) ==
    /\ pc[LoopT(c)] = "hsf_setState"
    /\ sState' = [sState EXCEPT ![c][frame[LoopT(c)].sid] = "CLOSED"]
    /\ pc' = [pc EXCEPT ![LoopT(c)] = "hsf_closeStream"]
    /\ UNCHANGED <<extVars, mgrVars, connVars, dataIn, closeFired, consumed, closeCause, inVars, frame,
                   exists, tconn, regVars>>

\* The close signal of stream s after Connection.closeStream.
CloseSignal(cf, c, s) == [cf EXCEPT ![c][s] = TRUE]

\* Connection.closeStream, called by handleStreamFrame, and the onStreamClosed
\* callback that handleStreamFrame invokes right after it
closeStream(c) ==
    /\ pc[LoopT(c)] = "hsf_closeStream"
    /\ streamsMu[c] = Free
    /\ LET s == frame[LoopT(c)].sid IN
        /\ IF s \in streams[c]
           THEN /\ closeFired' = CloseSignal(closeFired, c, s)
                /\ streams' = [streams EXCEPT ![c] = @ \ {s}]
                /\ closeCause' = [closeCause EXCEPT ![c][s] =
                       IF frame[LoopT(c)].type = "DATA" THEN "END_STREAM" ELSE "CLOSE"]
           ELSE UNCHANGED <<closeFired, streams, closeCause>>
        /\ streamClosedCalls' = [streamClosedCalls EXCEPT ![c][s] = @ + 1]
    /\ pc' = [pc EXCEPT ![LoopT(c)] = "select"]
    /\ UNCHANGED <<rgVars, rtVars, qVars, tbVars, raVars, teardowns, rcVars, rhVars, svcVars, mgrVars, closed, ctxDone, sockClosed, nextStreamID, streamsMu, hbExpired, closedBy,
                   sState, dataIn, consumed, inVars, frame, exists, tconn, regVars>>

\* A reader of Stream.DataIn() takes the next payload.
Consume(c, s) ==
    /\ dataIn[c][s] # <<>>
    /\ consumed' = [consumed EXCEPT ![c][s] = Append(@, Head(dataIn[c][s]))]
    /\ dataIn' = [dataIn EXCEPT ![c][s] = Tail(@)]
    /\ UNCHANGED <<extVars, mgrVars, connVars, sState, closeFired, closeCause, inVars, thrVars, regVars>>

\* ------------------------------------------------------ Connection.Close

\* Where a thread goes when Close returns: the frame loop's goroutine ends, a
\* CloseConnection caller goes on to the callback.
AfterClose(t) == IF t[1] = "loop" THEN "done" ELSE "cc_callback"

\* Close without the closed check: every invocation goes on to the teardown.
CloseCheckUnguarded(t) ==
    /\ pc[t] = "Close"
    /\ LET c == tconn[t] IN
        /\ closed' = [closed EXCEPT ![c] = TRUE]
        /\ closedBy' = [closedBy EXCEPT ![c] = t]
        /\ teardowns' = [teardowns EXCEPT ![c] = @ + 1]
        /\ pc' = [pc EXCEPT ![t] = "Close_cancel"]
    /\ UNCHANGED <<rgVars, rtVars, qVars, tbVars, raVars, streamClosedCalls, rcVars, rhVars, svcVars, mgrVars, ctxDone, sockClosed,
                   streams, nextStreamID, streamsMu, hbExpired, strVars, inVars, frame, exists, tconn,
                   regVars>>

\* Close: the closed check and c.closed = true, under closedMu
CloseCheck(t) ==
    /\ pc[t] = "Close"
    /\ LET c == tconn[t] IN
        IF closed[c]
        THEN /\ pc' = [pc EXCEPT ![t] = AfterClose(t)]
             /\ UNCHANGED <<closed, closedBy, teardowns>>
        ELSE /\ closed' = [closed EXCEPT ![c] = TRUE]
             /\ closedBy' = [closedBy EXCEPT ![c] = t]
             /\ teardowns' = [teardowns EXCEPT ![c] = @ + 1]
             /\ pc' = [pc EXCEPT ![t] = "Close_cancel"]
    /\ UNCHANGED <<rgVars, rtVars, qVars, tbVars, raVars, streamClosedCalls, rcVars, rhVars, svcVars, mgrVars, ctxDone, sockClosed, streams, nextStreamID, streamsMu, hbExpired,
                   strVars, inVars, frame, exists, tconn, regVars>>

\* Close: c.cancel()
CloseCancel(t) ==
    /\ pc[t] = "Close_cancel"
    /\ ctxDone' = [ctxDone EXCEPT ![tconn[t]] = TRUE]
    /\ pc' = [pc EXCEPT ![t] = "Close_streams"]
    /\ UNCHANGED <<extVars, mgrVars, closed, sockClosed, streams, nextStreamID, streamsMu, hbExpired, closedBy,
                   strVars, inVars, frame, exists, tconn, regVars>>

\* Close: c.streamsMu.Lock(), then range over c.streams.  With no stream the
\* loop body never runs and the lock is released; otherwise the first
\* iteration calls closeStream with streamsMu held.
CloseStreams(t) ==
    /\ pc[t] = "Close_streams"
    /\ LET c == tconn[t] IN
        /\ streamsMu[c] = Free
        /\ IF streams[c] = {}
           THEN /\ pc' = [pc EXCEPT ![t] = "Close_sock"]
                /\ UNCHANGED streamsMu
           ELSE /\ streamsMu' = [streamsMu EXCEPT ![c] = t]
                /\ pc' = [pc EXCEPT ![t] = "Close_closeStream"]
    /\ UNCHANGED <<extVars, mgrVars, closed, ctxDone, sockClosed, streams, nextStreamID, hbExpired, closedBy,
                   strVars, inVars, frame, exists, tconn, regVars>>

\* Close: closeStream(streamID) inside the range loop.  closeStream starts with
\* c.streamsMu.Lock(); sync.RWMutex is not reentrant, so the step waits for the
\* mutex to be free.  The caller took the mutex in CloseStreams and releases it
\* only after the loop, so this step is never enabled and is no disjunct of a
\* next-state relation: a thread at "Close_closeStream" stays there.
CloseCloseStream(t) ==
    /\ pc[t] = "Close_closeStream"
    /\ LET c == tconn[t] IN
        /\ streamsMu[c] = Free
        /\ \E s \in streams[c] :
            /\ closeFired' = CloseSignal(closeFired, c, s)
            /\ streams' = [streams EXCEPT ![c] = @ \ {s}]
            /\ closeCause' = [closeCause EXCEPT ![c][s] = "Close"]
    /\ UNCHANGED <<extVars, mgrVars, closed, ctxDone, sockClosed, nextStreamID, streamsMu, hbExpired, closedBy,
                   sState, dataIn, consumed, inVars, thrVars, regVars>>

\* Close: return c.Conn.Close()
CloseSock(t) ==
    /\ pc[t] = "Close_sock"
    /\ sockClosed' = [sockClosed EXCEPT ![tconn[t]] = TRUE]
    /\ pc' = [pc EXCEPT ![t] = AfterClose(t)]
    /\ UNCHANGED <<extVars, mgrVars, closed, ctxDone, streams, nextStreamID, streamsMu, hbExpired, closedBy,
                   strVars, inVars, frame, exists, tconn, regVars>>

\* ------------------------------------------------ Manager.CloseConnection

\* Manager.GetConnection(c) finds the connection.
GetConnectionOk(c) == c \in connections

\* CloseConnection that looks the id up and leaves it in the map.
CloseConnectionNoDelete(k, c) ==
    /\ pc[CloserT(k)] = "idle"
    /\ pc' = [pc EXCEPT ![CloserT(k)] = IF c \in connections THEN "Close" ELSE "notfound"]
    /\ tconn' = [tconn EXCEPT ![CloserT(k)] = c]
    /\ UNCHANGED <<extVars, mgrVars, connVars, strVars, inVars, frame, exists, regVars>>

\* CloseConnection: look the id up and delete it, under connsMu
CloseConnection(k, c) ==
    /\ pc[CloserT(k)] = "idle"
    /\ IF c \in connections
       THEN /\ connections' = connections \ {c}
            /\ pc' = [pc EXCEPT ![CloserT(k)] = "Close"]
       ELSE /\ pc' = [pc EXCEPT ![CloserT(k)] = "notfound"]
            /\ UNCHANGED connections
    /\ tconn' = [tconn EXCEPT ![CloserT(k)] = c]
    /\ UNCHANGED <<extVars, registered, cbCount, connVars, strVars, inVars, frame, exists, regVars>>

\* The callback main installs with SetOnConnectionClosed:
\* reg.UnregisterConnectionTunnels(connID).
onConnectionClosed(r, c) == UnregisterConnectionTunnelsOp(r, c)

\* CloseConnection: m.onConnectionClosed(connID), then return nil
CloseConnectionCallback(k) ==
    /\ pc[CloserT(k)] = "cc_callback"
    /\ LET c == tconn[CloserT(k)]
           r == onConnectionClosed(Reg(tunnels, connTunnels), c)
       IN /\ cbCount' = [cbCount EXCEPT ![c] = @ + 1]
          /\ tunnels' = r.tunnels
          /\ connTunnels' = r.connTunnels
    /\ pc' = [pc EXCEPT ![CloserT(k)] = "returned"]
    /\ UNCHANGED <<extVars, connections, registered, connVars, strVars, inVars, frame, exists, tconn>>

\* ------------------------------------------------- Registry, called whole

\* Registry.RegisterTunnel for a tunnel of a live connection
RegisterTunnel(subdomain, c) ==
    /\ c \in connections
    /\ ~closed[c]
    /\ LET r == RegisterTunnelOp(Reg(tunnels, connTunnels), subdomain, c, c) IN
        /\ tunnels' = r.tunnels
        /\ connTunnels' = r.connTunnels
    /\ UNCHANGED <<extVars, mgrVars, connVars, strVars, inVars, thrVars>>

\* Registry.UnregisterTunnel
UnregisterTunnel(d) ==
    /\ tunnels[d] # NoTunnel
    /\ LET r == UnregisterTunnelOp(Reg(tunnels, connTunnels), d) IN
        /\ tunnels' = r.tunnels
        /\ connTunnels' = r.connTunnels
    /\ UNCHANGED <<extVars, mgrVars, connVars, strVars, inVars, thrVars>>

\* ------------------------------------------------------------- Router
\* The request bodies: none, and one of one byte.
Bodies == {"", "b"}
\* buildRequestPayload's request line and headers, as one opaque payload
RequestPayload == "GET / HTTP/1.1"
\* The frames the agent sends while requests are being routed.
RouterFrames == {f \in StreamFrames : f.type \in {"OPEN_STREAM", "DATA"} /\ f.payload # "cd"}

\* The frames of an agent that answers a request: OPEN_STREAM, DATA with a
\* payload, and the empty DATA frame that carries END_STREAM.
ResponseFrames == {f \in RouterFrames : f.type = "OPEN_STREAM" \/ f.end = (f.payload = "")}

\* An admission stage of ServeHTTP and how it went for the request.
Stage(name, ok) == [stage |-> name, ok |-> ok]

\* A mutation of Answer: the deferred ReleaseStream is dropped.
AnswerNoRelease(r, status) ==
    /\ rStatus' = [rStatus EXCEPT ![r] = status]
    /\ pc' = [pc EXCEPT ![RouterT(r)] = "done"]

\* http.Error(w, ..., status) or the response, and return: the request is
\* answered with status, and the deferred ReleaseStream runs if it was registered.
Answer(r, status) ==
    /\ rStatus' = [rStatus EXCEPT ![r] = status]
    /\ pc' = [pc EXCEPT ![RouterT(r)] = IF rHeld[r] THEN "ReleaseStream" ELSE "done"]

\* A mutation of AfterGetTunnel: CheckRequest is run after the connection lookup.
AfterGetTunnelNoCheck(limited) == "GetConnection"
\* Where ServeHTTP goes once the tunnel is found: if r.limiter != nil, CheckRequest
AfterGetTunnel(limited) == IF limited THEN "CheckAgentRateLimit" ELSE "GetConnection"
\* Where ServeHTTP goes once the connection is found: if r.limiter != nil,
\* AcquireStream
AfterGetConnection(limited) == IF limited THEN "AcquireStream" ELSE "AllocateStreamID"

\* Router.ServeHTTP up to registry.GetTunnel(host)
ServeHTTP(r, host, body) ==
    /\ pc[RouterT(r)] = "idle"
    /\ rBody' = [rBody EXCEPT ![r] = body]
    /\ rHost' = [rHost EXCEPT ![r] = host]
    /\ IF host = ""
       THEN /\ Answer(r, StatusBadRequest)
            /\ rTrail' = [rTrail EXCEPT ![r] = <<Stage("host", FALSE)>>]
            /\ UNCHANGED tconn
       ELSE IF tunnels[host] = NoTunnel
       THEN /\ Answer(r, StatusNotFound)
            /\ rTrail' = [rTrail EXCEPT ![r] = <<Stage("host", TRUE), Stage("tunnel", FALSE)>>]
            /\ UNCHANGED tconn
       ELSE /\ tconn' = [tconn EXCEPT ![RouterT(r)] = tunnels[host].conn]
            /\ pc' = [pc EXCEPT ![RouterT(r)] = AfterGetTunnel(rLimiter)]
            /\ rTrail' = [rTrail EXCEPT ![r] = <<Stage("host", TRUE), Stage("tunnel", TRUE)>>]
            /\ UNCHANGED rStatus
    /\ UNCHANGED <<mgrVars, connVars, strVars, inVars, frame, exists, regVars, rgVars, qVars, tbVars,
                   encoding, outWire, rStream, rResp, rDeadline, rSent, rLive,
                   rLimiter, rHeld, rAcq, rRel, rChecks, rErr, hvVars, rhVars, svcVars>>

\* Router.ServeHTTP: connManager.GetConnection(tunnel.ConnectionID)
GetConnection(r) ==
    /\ pc[RouterT(r)] = "GetConnection"
    /\ rTrail' = [rTrail EXCEPT ![r] = Append(@, Stage("conn", tconn[RouterT(r)] \in connections))]
    /\ IF tconn[RouterT(r)] \in connections
       THEN /\ pc' = [pc EXCEPT ![RouterT(r)] = AfterGetConnection(rLimiter)]
            /\ UNCHANGED rStatus
       ELSE Answer(r, StatusServiceUnavailable)
    /\ UNCHANGED <<mgrVars, connVars, strVars, inVars, frame, exists, tconn, regVars, rgVars, qVars, tbVars,
                   encoding, outWire, rStream, rBody, rResp, rDeadline, rSent, rLive,
                   rLimiter, rHost, rHeld, rAcq, rRel, rChecks, rErr, hvVars, rhVars, svcVars>>

\* Connection.AllocateStreamID, and handleRequest building the OPEN_STREAM frame
AllocateStreamID(r) ==
    LET c == tconn[RouterT(r)] IN
    /\ pc[RouterT(r)] = "AllocateStreamID"
    /\ streamsMu[c] = Free
    /\ rStream' = [rStream EXCEPT ![r] = nextStreamID[c]]
    /\ nextStreamID' = [nextStreamID EXCEPT ![c] = @ + 1]
    /\ rLive' = [rLive EXCEPT ![r] = streams[c]]
    /\ frame' = [frame EXCEPT ![RouterT(r)] =
                    Frame("OPEN_STREAM", nextStreamID[c], FALSE, RequestPayload)]
    /\ pc' = [pc EXCEPT ![RouterT(r)] = "SendFrame"]
    /\ UNCHANGED <<mgrVars, closed, ctxDone, sockClosed, streams, streamsMu, hbExpired, closedBy,
                   strVars, inVars, exists, tconn, regVars, rgVars, qVars, tbVars, raVars, hvVars, rhVars, svcVars,
                   encoding, outWire, rStatus, rBody, rResp, rDeadline, rSent>>

\* Connection.SendFrame: the closed flag is read under closedMu, which is
\* released before the encoder is called
SendFrame(r) ==
    /\ pc[RouterT(r)] = "SendFrame"
    /\ IF closed[tconn[RouterT(r)]]
       THEN Answer(r, StatusInternalServerError)
       ELSE /\ pc' = [pc EXCEPT ![RouterT(r)] = "Encode"]
            /\ UNCHANGED rStatus
    /\ UNCHANGED <<mgrVars, connVars, strVars, inVars, frame, exists, tconn, regVars, rgVars, qVars, tbVars, raVars, hvVars, rhVars, svcVars,
                   encoding, outWire, rStream, rBody, rResp, rDeadline, rSent, rLive>>

\* Connection.SendFrame: v1.Encode(c.Conn, frame) starts writing
EncodeBegin(r) ==
    /\ pc[RouterT(r)] = "Encode"
    /\ encoding' = [encoding EXCEPT ![tconn[RouterT(r)]] = @ \cup {RouterT(r)}]
    /\ pc' = [pc EXCEPT ![RouterT(r)] = "Encoding"]
    /\ UNCHANGED <<mgrVars, connVars, strVars, inVars, frame, exists, tconn, regVars, rgVars, qVars, tbVars, raVars, hvVars, rhVars, svcVars,
                   outWire, rStream, rStatus, rBody, rResp, rDeadline, rSent, rLive>>

\* The frame handleRequest sends after f, when f is not the END_STREAM frame.
EndFrame(sid) == Frame("DATA", sid, TRUE, "")
BodyFrame(sid, body) == Frame("DATA", sid, FALSE, body)

\* Connection.SendFrame: v1.Encode returns; a write to a closed socket fails.
\* handleRequest goes on to GetStream after OPEN_STREAM, to the END_STREAM frame
\* after the body, and to waitForResponse after the END_STREAM frame.
EncodeEnd(r) ==
    LET t == RouterT(r)
        c == tconn[t]
        f == frame[t] IN
    /\ pc[t] = "Encoding"
    /\ encoding' = [encoding EXCEPT ![c] = @ \ {t}]
    /\ IF sockClosed[c]
       THEN /\ Answer(r, StatusInternalServerError)
            /\ UNCHANGED <<outWire, rSent, frame>>
       ELSE /\ outWire' = [outWire EXCEPT ![c] = Append(@, f)]
            /\ rSent' = [rSent EXCEPT ![r] = Append(@, f)]
            /\ UNCHANGED rStatus
            /\ IF f.type = "OPEN_STREAM"
               THEN /\ pc' = [pc EXCEPT ![t] = "GetStream"]
                    /\ UNCHANGED frame
               ELSE IF ~f.end
               THEN /\ pc' = [pc EXCEPT ![t] = "SendFrame"]
                    /\ frame' = [frame EXCEPT ![t] = EndFrame(f.sid)]
               ELSE /\ pc' = [pc EXCEPT ![t] = "waitForResponse"]
                    /\ UNCHANGED frame
    /\ UNCHANGED <<mgrVars, connVars, strVars, inVars, exists, tconn, regVars, rgVars, qVars, tbVars, raVars, hvVars, rhVars, svcVars,
                   rStream, rBody, rResp, rDeadline, rLive>>

\* handleRequest: conn.GetStream(streamID) right after the OPEN_STREAM frame,
\* then the body frame if the body is not empty, else the END_STREAM frame
GetStream(r) ==
    LET t == RouterT(r)
        c == tconn[t] IN
    /\ pc[t] = "GetStream"
    /\ streamsMu[c] = Free
    /\ IF rStream[r] \in streams[c]
       THEN /\ pc' = [pc EXCEPT ![t] = "SendFrame"]
            /\ frame' = [frame EXCEPT ![t] =
                    IF rBody[r] # "" THEN BodyFrame(rStream[r], rBody[r])
                    ELSE EndFrame(rStream[r])]
            /\ UNCHANGED rStatus
       ELSE /\ Answer(r, StatusInternalServerError)
            /\ UNCHANGED frame
    /\ UNCHANGED <<mgrVars, connVars, strVars, inVars, exists, tconn, regVars, rgVars, qVars, tbVars, raVars, hvVars, rhVars, svcVars,
                   encoding, outWire, rStream, rBody, rResp, rDeadline, rSent, rLive>>

\* The request context's timeout passes (observed only by waitForResponse).
RequestTimeout(r) ==
    /\ pc[RouterT(r)] = "waitForResponse"
    /\ ~rDeadline[r]
    /\ rDeadline' = [rDeadline EXCEPT ![r] = TRUE]
    /\ UNCHANGED <<mgrVars, connVars, strVars, inVars, thrVars, regVars, rgVars, qVars, tbVars, raVars, hvVars, rhVars, svcVars,
                   encoding, outWire, rStream, rStatus, rBody, rResp, rSent, rLive>>

\* waitForResponse, case <-ctx.Done(): ctx.Err() is returned and ServeHTTP
\* answers it like any other error
WaitCtxDone(r) ==
    /\ pc[RouterT(r)] = "waitForResponse"
    /\ rDeadline[r]
    /\ Answer(r, StatusInternalServerError)
    /\ UNCHANGED <<mgrVars, connVars, strVars, inVars, frame, exists, tconn, regVars, rgVars, qVars, tbVars, raVars, hvVars, rhVars, svcVars,
                   encoding, outWire, rStream, rBody, rResp, rDeadline, rSent, rLive>>

\* waitForResponse, case data := <-stream.DataIn()
WaitDataIn(r) ==
    LET c == tconn[RouterT(r)]
        s == rStream[r] IN
    /\ pc[RouterT(r)] = "waitForResponse"
    /\ dataIn[c][s] # <<>>
    /\ rResp' = [rResp EXCEPT ![r] = @ \o Head(dataIn[c][s])]
    /\ consumed' = [consumed EXCEPT ![c][s] = Append(@, Head(dataIn[c][s]))]
    /\ dataIn' = [dataIn EXCEPT ![c][s] = Tail(@)]
    /\ UNCHANGED <<mgrVars, connVars, sState, closeFired, closeCause, inVars, thrVars, regVars,
                   rgVars, qVars, tbVars, raVars, hvVars, rhVars, svcVars, encoding, outWire, rStream, rStatus, rBody, rDeadline,
                   rSent, rLive>>

\* waitForResponse, case <-stream.CloseCh(), and the response that follows
WaitCloseCh(r) ==
    LET c == tconn[RouterT(r)]
        s == rStream[r] IN
    /\ pc[RouterT(r)] = "waitForResponse"
    /\ closeFired[c][s]
    /\ Answer(r, IF rResp[r] # "" THEN StatusOK ELSE StatusNoContent)
    /\ UNCHANGED <<mgrVars, connVars, strVars, inVars, frame, exists, tconn, regVars, rgVars, qVars, tbVars, raVars, hvVars, rhVars, svcVars,
                   encoding, outWire, rStream, rBody, rResp, rDeadline, rSent, rLive>>


\* ------------------------------------- Registry, one step per lock region
\* The variables a registry call leaves alone.
RegistryFrame == <<mgrVars, connVars, strVars, inVars, frame, exists, rtVars, qVars, tbVars,
                   raVars, hvVars, svcVars>>

\* A step of caller i disturbs every UnregisterConnectionTunnels call of another
\* caller that is in progress.
DisturbCalls(i) ==
    [k \in RegCallers |->
        IF k # i /\ uct[k].active THEN [uct[k] EXCEPT !.alone = FALSE] ELSE uct[k]]

\* What RegisterTunnel does for connection c with the record it finds under the
\* full domain, when it overwrites the record of another connection.
RegisterTunnelOutcomeOverwrite(existing, c) ==
    IF existing = NoTunnel \/ existing.conn # c THEN "create" ELSE "refresh"

\* What RegisterTunnel does for connection c with the record it finds under the
\* full domain: a new record, ErrDomainAlreadyRegistered, or the refresh of the
\* record of the same connection.
RegisterTunnelOutcome(existing, c) ==
    IF existing = NoTunnel THEN "create"
    ELSE IF existing.conn # c THEN "DOMAIN_ALREADY_REGISTERED" ELSE "refresh"

\* Registry.RegisterTunnel up to the update of the forward index, under tunnelsMu.
\* A full domain that is taken ends the call (ErrDomainAlreadyRegistered, or the
\* update of Metadata and LastAccess for the same connection); tunnelsMu stays
\* held otherwise.  Connection c belongs to agent c.
RegisterTunnelInsert(i, subdomain, c, meta) ==
    LET fd == buildFullDomain(subdomain)
        existing == tunnels[fd]
        outcome == RegisterTunnelOutcome(existing, c)
        tunnel == [conn |-> c, agent |-> c]
    IN
    /\ pc[RegT(i)] = "idle"
    /\ regCalls < MaxRegCalls
    /\ tunnelsMu = Free
    /\ regCalls' = regCalls + 1
    /\ regLog' = [n |-> regCalls + 1, fd |-> fd, conn |-> c, meta |-> meta, at |-> now,
                  existing |-> existing, outcome |-> outcome,
                  ret |-> IF outcome = "create" THEN tunnel
                          ELSE IF outcome = "refresh" THEN existing ELSE NoTunnel,
                  seen |-> regLog.seen \cup {outcome}]
    /\ IF outcome = "DOMAIN_ALREADY_REGISTERED"
       THEN UNCHANGED <<tunnels, tunnelsMu, pc, tconn, regDom, tunnelMeta, tunnelAccess, lastOp>>
       ELSE /\ tunnelMeta' = [tunnelMeta EXCEPT ![fd] = meta]
            /\ tunnelAccess' = [tunnelAccess EXCEPT ![fd] = now]
            /\ IF outcome = "refresh"
               THEN UNCHANGED <<tunnels, tunnelsMu, pc, tconn, regDom, lastOp>>
               ELSE /\ tunnels' = [tunnels EXCEPT ![fd] = tunnel]
                    /\ lastOp' = [lastOp EXCEPT ![fd] = tunnel]
                    /\ tunnelsMu' = RegT(i)
                    /\ tconn' = [tconn EXCEPT ![RegT(i)] = c]
                    /\ regDom' = [regDom EXCEPT ![i] = fd]
                    /\ pc' = [pc EXCEPT ![RegT(i)] = "RegisterTunnel_track"]
    /\ uct' = DisturbCalls(i)
    /\ UNCHANGED <<RegistryFrame, connTunnels, regDoms, regRet, unregLog>>

\* Registry.RegisterTunnel: the reverse index under connTunnelsMu, then the
\* deferred tunnelsMu.Unlock
RegisterTunnelTrack(i) ==
    /\ pc[RegT(i)] = "RegisterTunnel_track"
    /\ connTunnels' = [connTunnels EXCEPT ![tconn[RegT(i)]] = @ \cup {regDom[i]}]
    /\ tunnelsMu' = Free
    /\ pc' = [pc EXCEPT ![RegT(i)] = "idle"]
    /\ uct' = DisturbCalls(i)
    /\ UNCHANGED <<RegistryFrame, tunnels, tconn, regDom, regDoms, regRet, regCalls,
                   tunnelMeta, tunnelAccess, regLog, unregLog, lastOp>>

\* A caller invokes Registry.UnregisterTunnel(d).
UnregisterTunnelCall(i, d) ==
    /\ pc[RegT(i)] = "idle"
    /\ regCalls < MaxRegCalls
    /\ regCalls' = regCalls + 1
    /\ regDom' = [regDom EXCEPT ![i] = d]
    /\ regRet' = [regRet EXCEPT ![i] = "idle"]
    /\ pc' = [pc EXCEPT ![RegT(i)] = "UnregisterTunnel_delete"]
    /\ uct' = DisturbCalls(i)
    /\ UNCHANGED <<RegistryFrame, regVars, tunnelsMu, tconn, regDoms,
                   tunnelMeta, tunnelAccess, regLog, unregLog, lastOp>>

\* Registry.UnregisterTunnel: the forward index under tunnelsMu, which is
\* released before connTunnelsMu is taken; ErrTunnelNotFound ends the call
UnregisterTunnelDelete(i) ==
    LET d == regDom[i] IN
    /\ pc[RegT(i)] = "UnregisterTunnel_delete"
    /\ tunnelsMu = Free
    /\ unregLog' = [d |-> d, existing |-> tunnels[d],
                    err |-> IF tunnels[d] = NoTunnel THEN "TUNNEL_NOT_FOUND" ELSE "nil"]
    /\ IF tunnels[d] = NoTunnel
       THEN /\ pc' = [pc EXCEPT ![RegT(i)] = regRet[i]]
            /\ UNCHANGED <<tunnels, tconn, lastOp>>
       ELSE /\ tconn' = [tconn EXCEPT ![RegT(i)] = tunnels[d].conn]
            /\ tunnels' = UnregForward(tunnels, d)
            /\ lastOp' = [lastOp EXCEPT ![d] = NoTunnel]
            /\ pc' = [pc EXCEPT ![RegT(i)] = "UnregisterTunnel_untrack"]
    /\ uct' = DisturbCalls(i)
    /\ UNCHANGED <<RegistryFrame, connTunnels, rgVars, tunnelMeta, tunnelAccess, regLog>>

\* Registry.UnregisterTunnel: the reverse index under connTunnelsMu
UnregisterTunnelUntrack(i) ==
    /\ pc[RegT(i)] = "UnregisterTunnel_untrack"
    /\ connTunnels' = UnregReverse(connTunnels, tconn[RegT(i)], regDom[i])
    /\ pc' = [pc EXCEPT ![RegT(i)] = regRet[i]]
    /\ uct' = DisturbCalls(i)
    /\ UNCHANGED <<RegistryFrame, tunnels, tconn, rgVars,
                   tunnelMeta, tunnelAccess, regLog, unregLog, lastOp>>

\* Registry.UnregisterConnectionTunnels: the domains of the connection are
\* copied under connTunnelsMu.RLock
UnregisterConnectionTunnelsCopy(i, c) ==
    /\ pc[RegT(i)] = "idle"
    /\ regCalls < MaxRegCalls
    /\ regCalls' = regCalls + 1
    /\ regDoms' = [regDoms EXCEPT ![i] = connTunnels[c]]
    /\ pc' = [pc EXCEPT ![RegT(i)] =
                IF connTunnels[c] = {} THEN "idle" ELSE "UnregisterConnectionTunnels_loop"]
    /\ uct' = [DisturbCalls(i) EXCEPT ![i] =
                [c |-> c, before |-> Reg(tunnels, connTunnels),
                 alone |-> \A j \in RegCallers \ {i} : pc[RegT(j)] = "idle",
                 active |-> connTunnels[c] # {}]]
    /\ UNCHANGED <<RegistryFrame, regVars, tunnelsMu, tconn, regDom, regRet,
                   tunnelMeta, tunnelAccess, regLog, unregLog, lastOp>>

\* Registry.UnregisterConnectionTunnels: for _, domain := range domains
UnregisterConnectionTunnelsLoop(i) ==
    /\ pc[RegT(i)] = "UnregisterConnectionTunnels_loop"
    /\ IF regDoms[i] = {}
       THEN /\ pc' = [pc EXCEPT ![RegT(i)] = "idle"]
            /\ uct' = [DisturbCalls(i) EXCEPT ![i].active = FALSE]
            /\ UNCHANGED <<regDom, regDoms, regRet>>
       ELSE /\ uct' = DisturbCalls(i)
            /\ \E d \in regDoms[i] :
                /\ regDoms' = [regDoms EXCEPT ![i] = @ \ {d}]
                /\ regDom' = [regDom EXCEPT ![i] = d]
                /\ regRet' = [regRet EXCEPT ![i] = "UnregisterConnectionTunnels_loop"]
                /\ pc' = [pc EXCEPT ![RegT(i)] = "UnregisterTunnel_delete"]
    /\ UNCHANGED <<RegistryFrame, regVars, tunnelsMu, tconn, regCalls,
                   tunnelMeta, tunnelAccess, regLog, unregLog, lastOp>>

\* -------------------------------------------------------- TokenBucket
\* Times are whole ticks and token levels whole 1/TicksPerSecond tokens, so that
\* tokens + elapsed * refillRate is exact: elapsed seconds = ticks / TicksPerSecond.
\* The (capacity, refillRate) pairs buckets are constructed with.
BucketParams == {<<3, 1>>, <<1, 1>>, <<0, 0>>, <<-1, -1>>}
\* The n of AllowN calls.
BucketNs == {2}

\* n tokens, as a token level
Tokens(n) == n * TicksPerSecond

\* NewTokenBucket(capacity, refillRate) at time t
NewTokenBucket(capacity, refillRate, t) ==
    [made |-> TRUE, capacity |-> capacity, tokens |-> Tokens(capacity),
     refillRate |-> refillRate, lastRefill |-> t]

\* min(a, b)
min(a, b) == IF a < b THEN a ELSE b

\* A mutation of Refill: the level is not capped at the capacity.
RefillUncapped(b, t) ==
    [b EXCEPT !.tokens = @ + (t - b.lastRefill) * b.refillRate, !.lastRefill = t]

\* "Refill tokens": elapsed := now.Sub(tb.lastRefill).Seconds();
\* tb.tokens = min(capacity, tb.tokens + elapsed*tb.refillRate); tb.lastRefill = now
Refill(b, t) ==
    [b EXCEPT !.tokens = min(Tokens(b.capacity), @ + (t - b.lastRefill) * b.refillRate),
              !.lastRefill = t]

\* A mutation of AllowOk: a level of exactly one token does not pass.
AllowOkStrict(b, t) == Refill(b, t).tokens > Tokens(1)

\* TokenBucket.Allow at time t: the bucket afterwards, and the value returned
AllowOk(b, t) == Refill(b, t).tokens >= Tokens(1)
Allow(b, t) ==
    IF AllowOk(b, t) THEN [Refill(b, t) EXCEPT !.tokens = @ - Tokens(1)] ELSE Refill(b, t)

\* TokenBucket.AllowN at time t: the bucket afterwards, and the value returned
AllowNOk(b, n, t) == Refill(b, t).tokens >= Tokens(n)
AllowN(b, n, t) ==
    IF AllowNOk(b, n, t) THEN [Refill(b, t) EXCEPT !.tokens = @ - Tokens(n)] ELSE Refill(b, t)

\* TokenBucket.GetStats at time t: the bucket afterwards
GetStats(b, t) == Refill(b, t)

\* The variables a call on the bucket leaves alone.
BucketFrame == <<mgrVars, connVars, strVars, inVars, thrVars, regVars, rgVars, rtVars, qVars,
                 raVars, hvVars, rhVars, svcVars>>
Call(op, n, ok) == [op |-> op, n |-> n, t |-> now, ok |-> ok]

\* time.Now() advances (its monotonic reading never goes back)
ClockTick ==
    /\ now < MaxTime
    /\ now' = now + 1
    /\ UNCHANGED <<BucketFrame, tb, tbPrev, tbLog>>

\* A bucket is constructed.
CreateBucket(capacity, refillRate) ==
    /\ ~tb.made
    /\ tb' = NewTokenBucket(capacity, refillRate, now)
    /\ UNCHANGED <<BucketFrame, now, tbPrev, tbLog>>

\* A call of tb.Allow()
CallAllow ==
    /\ tb.made
    /\ Len(tbLog) < MaxBucketCalls
    /\ tb' = Allow(tb, now)
    /\ tbPrev' = tb
    /\ tbLog' = Append(tbLog, Call("Allow", 1, AllowOk(tb, now)))
    /\ UNCHANGED <<BucketFrame, now>>

\* A call of tb.AllowN(n)
CallAllowN(n) ==
    /\ tb.made
    /\ Len(tbLog) < MaxBucketCalls
    /\ tb' = AllowN(tb, n, now)
    /\ tbPrev' = tb
    /\ tbLog' = Append(tbLog, Call("AllowN", n, AllowNOk(tb, n, now)))
    /\ UNCHANGED <<BucketFrame, now>>

\* A call of tb.GetStats()
CallGetStats ==
    /\ tb.made
    /\ Len(tbLog) < MaxBucketCalls
    /\ tb' = GetStats(tb, now)
    /\ tbPrev' = tb
    /\ tbLog' = Append(tbLog, Call("GetStats", 0, TRUE))
    /\ UNCHANGED <<BucketFrame, now>>


\* ------------------------------------------------------------ Limiter
\* The variables a limiter call leaves alone.
LimiterFrame == <<mgrVars, connVars, strVars, inVars, frame, exists, tconn, regVars, rgVars,
                  rtVars, tbVars, raVars, hvVars, rhVars, svcVars>>
Limits == 1..MaxLimit
\* The rateLimit of SetAgentLimit and SetDomainLimit calls.
RateLimits == {0, 1}

\* NewTokenBucket aside, the AgentLimit record SetAgentLimit stores
NewLimit(maxStreams) == [set |-> TRUE, max |-> maxStreams, cur |-> 0]
\* limit.CurrentStreams >= limit.MaxStreams, for a configured limit
LimitReached(l) == l.set /\ l.cur >= l.max
\* A mutation of CheckStreamLimit: a check that passes takes the slot at once.
CheckStreamLimitReserving(l) == IF l.set /\ l.cur < l.max THEN [l EXCEPT !.cur = @ + 1] ELSE l
\* The limit record after CheckAgentStreamLimit / CheckDomainStreamLimit: they
\* only read it
CheckStreamLimit(l) == l
\* limit.CurrentStreams++ when the key has a limit
Increment(l) == IF l.set THEN [l EXCEPT !.cur = @ + 1] ELSE l
\* A mutation of Decrement: the counter is decremented without the test.
DecrementUnchecked(l) == IF l.set THEN [l EXCEPT !.cur = @ - 1] ELSE l
\* if limit.CurrentStreams > 0 { limit.CurrentStreams-- } when the key has a limit
Decrement(l) == IF l.set /\ l.cur > 0 THEN [l EXCEPT !.cur = @ - 1] ELSE l

\* History kept per caller of AcquireStream / ReleaseStream: every other
\* caller has been disturbed by a step of caller i.
Disturb(i) == [j \in QuotaCallers |-> IF j = i THEN qAlone[j] ELSE FALSE]
NoChange == [agent |-> 0, domain |-> 0]
Counters == [agent |-> agentLimit.cur, domain |-> domainLimit.cur]

\* Limiter.SetAgentLimit for the agent
SetAgentLimit(maxStreams, rateLimit) ==
    /\ ~agentLimit.set
    /\ agentLimit' = NewLimit(maxStreams)
    /\ agentBucket' = NewTokenBucket(rateLimit, rateLimit, now)
    /\ qAlone' = [j \in QuotaCallers |-> FALSE]
    /\ UNCHANGED <<LimiterFrame, pc, domainLimit, domainBucket, qCalls, qRes, qDid, qBefore>>

\* Limiter.SetDomainLimit for the domain
SetDomainLimit(maxStreams, rateLimit) ==
    /\ ~domainLimit.set
    /\ domainLimit' = NewLimit(maxStreams)
    /\ domainBucket' = NewTokenBucket(rateLimit, rateLimit, now)
    /\ qAlone' = [j \in QuotaCallers |-> FALSE]
    /\ UNCHANGED <<LimiterFrame, pc, agentLimit, agentBucket, qCalls, qRes, qDid, qBefore>>

\* Limiter.AcquireStream: CheckAgentStreamLimit
AcquireCheckAgent(i) ==
    /\ pc[QuotaT(i)] = "idle"
    /\ qCalls[i] < MaxQuotaCalls
    /\ qCalls' = [qCalls EXCEPT ![i] = @ + 1]
    /\ agentLimit' = CheckStreamLimit(agentLimit)
    /\ pc' = [pc EXCEPT ![QuotaT(i)] =
                IF LimitReached(agentLimit) THEN "idle" ELSE "AcquireStream_checkDomain"]
    /\ qRes' = [qRes EXCEPT ![i] = IF LimitReached(agentLimit) THEN "agent" ELSE "none"]
    /\ qDid' = [qDid EXCEPT ![i] = [NoChange EXCEPT !.agent = agentLimit'.cur - agentLimit.cur]]
    /\ qBefore' = [qBefore EXCEPT ![i] = Counters]
    /\ qAlone' = [Disturb(i) EXCEPT ![i] = TRUE]
    /\ UNCHANGED <<LimiterFrame, domainLimit, agentBucket, domainBucket>>

\* Limiter.AcquireStream: CheckDomainStreamLimit
AcquireCheckDomain(i) ==
    /\ pc[QuotaT(i)] = "AcquireStream_checkDomain"
    /\ domainLimit' = CheckStreamLimit(domainLimit)
    /\ pc' = [pc EXCEPT ![QuotaT(i)] =
                IF LimitReached(domainLimit) THEN "idle" ELSE "AcquireStream_incAgent"]
    /\ qRes' = [qRes EXCEPT ![i] = IF LimitReached(domainLimit) THEN "domain" ELSE "none"]
    /\ qDid' = [qDid EXCEPT ![i].domain = @ + domainLimit'.cur - domainLimit.cur]
    /\ qAlone' = Disturb(i)
    /\ UNCHANGED <<LimiterFrame, agentLimit, agentBucket, domainBucket, qCalls, qBefore>>

\* Limiter.AcquireStream: the agent's counter under agentMu and limit.mu
AcquireIncAgent(i) ==
    /\ pc[QuotaT(i)] = "AcquireStream_incAgent"
    /\ agentLimit' = Increment(agentLimit)
    /\ pc' = [pc EXCEPT ![QuotaT(i)] = "AcquireStream_incDomain"]
    /\ qDid' = [qDid EXCEPT ![i].agent = @ + agentLimit'.cur - agentLimit.cur]
    /\ qAlone' = Disturb(i)
    /\ UNCHANGED <<LimiterFrame, domainLimit, agentBucket, domainBucket, qCalls, qRes, qBefore>>

\* Limiter.AcquireStream: the domain's counter under domainMu and limit.mu
AcquireIncDomain(i) ==
    /\ pc[QuotaT(i)] = "AcquireStream_incDomain"
    /\ domainLimit' = Increment(domainLimit)
    /\ pc' = [pc EXCEPT ![QuotaT(i)] = "acquired"]
    /\ qRes' = [qRes EXCEPT ![i] = "ok"]
    /\ qDid' = [qDid EXCEPT ![i].domain = @ + domainLimit'.cur - domainLimit.cur]
    /\ qAlone' = Disturb(i)
    /\ UNCHANGED <<LimiterFrame, agentLimit, agentBucket, domainBucket, qCalls, qBefore>>

\* Limiter.ReleaseStream by the caller that acquired: the agent's counter
ReleaseDecAgent(i) ==
    /\ pc[QuotaT(i)] = "acquired"
    /\ agentLimit' = Decrement(agentLimit)
    /\ pc' = [pc EXCEPT ![QuotaT(i)] = "ReleaseStream_decDomain"]
    /\ qAlone' = Disturb(i)
    /\ UNCHANGED <<LimiterFrame, domainLimit, agentBucket, domainBucket, qCalls, qRes, qDid,
                   qBefore>>

\* Limiter.ReleaseStream: the domain's counter
ReleaseDecDomain(i) ==
    /\ pc[QuotaT(i)] = "ReleaseStream_decDomain"
    /\ domainLimit' = Decrement(domainLimit)
    /\ pc' = [pc EXCEPT ![QuotaT(i)] = "idle"]
    /\ qRes' = [qRes EXCEPT ![i] = "released"]
    /\ qAlone' = Disturb(i)
    /\ UNCHANGED <<LimiterFrame, agentLimit, agentBucket, domainBucket, qCalls, qDid, qBefore>>

\* ------------------------------------------- handleAgentConnection
\* What the acceptor leaves alone before it registers the connection.
AcceptFrame == <<mgrVars, closed, ctxDone, streams, nextStreamID, streamsMu, hbExpired, closedBy,
                 strVars, inVars, thrVars, regVars, rgVars, rtVars, qVars, tbVars, raVars, hvVars,
                 rhVars, svcButAcceptor>>

\* handleAgentConnection returns: the deferred rawConn.Close()
AcceptorReturns(c, ack, err) ==
    /\ acceptor' = [acceptor EXCEPT ![c].pc = "returned", ![c].ack = ack, ![c].err = err]
    /\ sockClosed' = [sockClosed EXCEPT ![c] = TRUE]

\* handleAgentConnection: v1.Decode fails within the auth deadline
AcceptorDecodeErr(c) ==
    /\ acceptor[c].pc = "Decode"
    /\ AcceptorReturns(c, "none", "decode")
    /\ UNCHANGED AcceptFrame

\* handleAgentConnection: the first frame is decoded and given to HandleAuth;
\* the error response or the success response is encoded to the socket (sent
\* says whether the write of the success response succeeds)
AcceptorAuth(c, f, sent) ==
    /\ acceptor[c].pc = "Decode"
    /\ LET res == HandleAuth(validateToken, f) IN
        IF res.err # "nil" THEN AcceptorReturns(c, "error", res.err)
        ELSE IF ~sent THEN AcceptorReturns(c, "none", "encode")
        ELSE /\ acceptor' = [acceptor EXCEPT ![c].pc = "RegisterConnection",
                                             ![c].agent = res.agent, ![c].ack = "success"]
             /\ UNCHANGED sockClosed
    /\ UNCHANGED AcceptFrame

\* handleAgentConnection: connManager.RegisterConnection(connID, agentID, conn,
\* metadata), the whole call; an error makes the acceptor return
AcceptorRegister(c) ==
    /\ acceptor[c].pc = "RegisterConnection"
    /\ LET err == RegisterConnectionError(Cardinality(connections), maxConnections,
                                          c \in connections) IN
        /\ rcLog' = [id |-> c, err |-> err, before |-> connections,
                     seen |-> rcLog.seen \cup {err}]
        /\ IF err = "nil"
           THEN /\ connections' = connections \cup {c}
                /\ registered' = registered \cup {c}
                /\ pc' = [pc EXCEPT ![LoopT(c)] = "select", ![ReaderT(c)] = "r_decode"]
                /\ acceptor' = [acceptor EXCEPT ![c].pc = "serving"]
                /\ UNCHANGED sockClosed
           ELSE /\ AcceptorReturns(c, acceptor[c].ack, err)
                /\ UNCHANGED <<connections, registered, pc>>
    /\ UNCHANGED <<rgVars, rtVars, qVars, tbVars, raVars, teardowns, streamClosedCalls, rhVars,
                   svcButAcceptor, maxConnections, cbCount, closed, ctxDone, streams, nextStreamID,
                   streamsMu, hbExpired, closedBy, strVars, inVars, frame, exists, tconn, regVars>>

\* handleAgentConnection: <-registeredConn.Context().Done(), then it returns
AcceptorDone(c) ==
    /\ acceptor[c].pc = "serving"
    /\ ctxDone[c]
    /\ AcceptorReturns(c, acceptor[c].ack, "nil")
    /\ UNCHANGED AcceptFrame

\* ------------------------------------------------ Registry.GetTunnel
\* What GetTunnel and its goroutine leave alone, the registry's tunnels aside.
LookupFrame == <<mgrVars, connVars, strVars, inVars, thrVars, rgVars, rtVars, qVars, tbVars,
                 raVars, hvVars, svcButRef, tunnelMeta, regLog, unregLog, lastOp, uct>>

\* A mutation of RefreshTime: the goroutine writes the time of the lookup.
RefreshTimeOfLookup(started, t) == started
\* t.LastAccess = time.Now() in a goroutine started at time `started` and
\* running at time t
RefreshTime(started, t) == t

\* sequence q without its k-th element
RemoveAt(q, k) == SubSeq(q, 1, k - 1) \o SubSeq(q, k + 1, Len(q))

\* Registry.GetTunnel(d), the whole call under tunnelsMu.RLock: the lookup, and
\* for a domain that is found the start of the goroutine that will set
\* LastAccess
GetTunnel(d) ==
    /\ tunnelsMu = Free
    /\ tunnels[d] # NoTunnel => Len(pendingRefresh) < MaxPendingRefreshes
    /\ gtLog' = [n |-> (gtLog.n + 1) % 2, d |-> d, ret |-> GetTunnelOp(tunnels, d),
                 ok |-> tunnels[d] # NoTunnel, pending |-> Len(pendingRefresh)]
    /\ pendingRefresh' = IF tunnels[d] # NoTunnel
                         THEN Append(pendingRefresh, [d |-> d, started |-> now])
                         ELSE pendingRefresh
    /\ UNCHANGED <<LookupFrame, regVars, tunnelAccess>>

\* The goroutine started by GetTunnel: under tunnelsMu.Lock, LastAccess of the
\* record that is under the domain now, if there is one
RefreshLastAccess(k) ==
    /\ k \in 1..Len(pendingRefresh)
    /\ tunnelsMu = Free
    /\ LET g == pendingRefresh[k] IN
        tunnelAccess' = IF tunnels[g.d] # NoTunnel
                        THEN [tunnelAccess EXCEPT ![g.d] = RefreshTime(g.started, now)]
                        ELSE tunnelAccess
    /\ pendingRefresh' = RemoveAt(pendingRefresh, k)
    /\ UNCHANGED <<LookupFrame, regVars, gtLog>>

\* ------------------------------------------- Limiter: the limit tables
\* What a call on the limit tables leaves alone, the limiter's own state aside.
LockFrame == <<mgrVars, connVars, strVars, inVars, frame, exists, tconn, regVars, rgVars,
               rtVars, tbVars, raVars, hvVars, rhVars, svcButLk>>

\* RWMutex.RLock succeeds at once: no writer holds the mutex and none is announced.
RLockOk(mu) == mu.writer = 0 /\ mu.pending = {}
\* RWMutex.Unlock by a caller that holds no write lock. sync documents a run-time
\* error; the runtime raises it ("sync: Unlock of unlocked RWMutex") unless a
\* writer is announced and waiting, and then the call returns: the announcement
\* is withdrawn, and the read hold of the caller stays for ever.
UnlockUnheldFatal(mu) == mu.pending = {}
UnlockUnheld(mu) == [mu EXCEPT !.pending = {}]

\* Limiter.GetAgentLimit: agentMu.RLock, the lookup, agentMu.RUnlock
GetAgentLimit(i) ==
    /\ ~limiterFatal
    /\ pc[QuotaT(i)] = "idle"
    /\ qCalls[i] < MaxQuotaCalls
    /\ qCalls' = [qCalls EXCEPT ![i] = @ + 1]
    /\ gdlLog' = [gdlLog EXCEPT ![i] =
                    [of |-> "agent", limit |-> agentLimit, ok |-> agentLimit.set, at |-> agentLimit]]
    /\ UNCHANGED <<LockFrame, pc, agentLimit, domainLimit, agentBucket, domainBucket, qRes, qDid,
                   qBefore, qAlone, domainMu, limiterFatal>>

\* Limiter.GetDomainLimit: l.domainMu.RLock()
GetDomainLimitRLock(i) ==
    /\ ~limiterFatal
    /\ pc[QuotaT(i)] = "idle"
    /\ qCalls[i] < MaxQuotaCalls
    /\ RLockOk(domainMu)
    /\ qCalls' = [qCalls EXCEPT ![i] = @ + 1]
    /\ domainMu' = [domainMu EXCEPT !.readers = @ + 1]
    /\ pc' = [pc EXCEPT ![QuotaT(i)] = "GetDomainLimit_lookup"]
    /\ UNCHANGED <<LockFrame, agentLimit, domainLimit, agentBucket, domainBucket, qRes, qDid,
                   qBefore, qAlone, limiterFatal, gdlLog>>

\* Limiter.GetDomainLimit: the lookup, and on return the deferred
\* l.domainMu.Unlock() of a mutex the caller holds for reading
GetDomainLimitReturn(i) ==
    /\ ~limiterFatal
    /\ pc[QuotaT(i)] = "GetDomainLimit_lookup"
    /\ IF UnlockUnheldFatal(domainMu)
       THEN /\ limiterFatal' = TRUE
            /\ UNCHANGED <<pc, domainMu, gdlLog>>
       ELSE /\ domainMu' = UnlockUnheld(domainMu)
            /\ gdlLog' = [gdlLog EXCEPT ![i] = [of |-> "domain", limit |-> domainLimit,
                                                ok |-> domainLimit.set, at |-> domainLimit]]
            /\ pc' = [pc EXCEPT ![QuotaT(i)] = "idle"]
            /\ UNCHANGED limiterFatal
    /\ UNCHANGED <<LockFrame, agentLimit, domainLimit, agentBucket, domainBucket, qCalls, qRes,
                   qDid, qBefore, qAlone>>

\* Limiter.SetDomainLimit: l.domainMu.Lock() announces the writer, which then
\* waits for the read holds to go
SetDomainLimitLock(i) ==
    /\ ~limiterFatal
    /\ pc[QuotaT(i)] = "idle"
    /\ qCalls[i] < MaxQuotaCalls
    /\ domainMu.writer = 0 /\ domainMu.pending = {}
    /\ qCalls' = [qCalls EXCEPT ![i] = @ + 1]
    /\ domainMu' = [domainMu EXCEPT !.pending = {i}]
    /\ pc' = [pc EXCEPT ![QuotaT(i)] = "SetDomainLimit_locking"]
    /\ UNCHANGED <<LockFrame, agentLimit, domainLimit, agentBucket, domainBucket, qRes, qDid,
                   qBefore, qAlone, limiterFatal, gdlLog>>

\* Limiter.SetDomainLimit: the write lock is had, the limit stored, and the
\* deferred l.domainMu.Unlock() releases it
SetDomainLimitStore(i, maxStreams, rateLimit) ==
    /\ ~limiterFatal
    /\ pc[QuotaT(i)] = "SetDomainLimit_locking"
    /\ i \in domainMu.pending /\ domainMu.readers = 0
    /\ domainLimit' = NewLimit(maxStreams)
    /\ domainBucket' = NewTokenBucket(rateLimit, rateLimit, now)
    /\ domainMu' = [domainMu EXCEPT !.pending = {}]
    /\ pc' = [pc EXCEPT ![QuotaT(i)] = "idle"]
    /\ UNCHANGED <<LockFrame, agentLimit, agentBucket, qCalls, qRes, qDid, qBefore, qAlone,
                   limiterFatal, gdlLog>>

\* ------------------------------------------------ Router with a limiter
\* The variables a limiter call made by ServeHTTP leaves alone.
AdmitFrame == <<mgrVars, connVars, strVars, inVars, frame, exists, tconn, regVars, rgVars, tbVars,
                rtVarsButStatus, rLimiter, rHost, qCalls, qRes, qDid, qBefore, hvVars, rhVars, svcVars>>
\* Every caller of AcquireStream / ReleaseStream is disturbed by a router's call.
DisturbAll == [j \in QuotaCallers |-> FALSE]

\* The names of CheckRequest's checks, and the error each returns.
RateChecks == {"CheckAgentRateLimit", "CheckDomainRateLimit"}
ErrorOf(check) ==
    CASE check = "CheckAgentRateLimit" -> "ErrAgentRateLimitExceeded"
      [] check = "CheckDomainRateLimit" -> "ErrDomainRateLimitExceeded"
      [] check = "CheckAgentStreamLimit" -> "ErrAgentStreamLimitExceeded"
      [] check = "CheckDomainStreamLimit" -> "ErrDomainStreamLimitExceeded"

\* History: what a check saw: whether the key has a limit, and the level it
\* compared (tokens after the refill, or CurrentStreams) with its bound (one
\* token, or MaxStreams).
Seen(check, l, b) ==
    [check |-> check, set |-> l.set,
     level |-> IF check \in RateChecks THEN Refill(b, now).tokens ELSE l.cur,
     bound |-> IF check \in RateChecks THEN Tokens(1) ELSE l.max]

\* A mutation of RateLimitExceeded: a key without a limit is looked up all the same.
RateLimitExceededUnset(l, b, t) == ~AllowOk(b, t)
\* CheckAgentRateLimit / CheckDomainRateLimit: exists && !limit.TokenBucket.Allow()
RateLimitExceeded(l, b, t) == l.set /\ ~AllowOk(b, t)
\* The bucket after CheckAgentRateLimit / CheckDomainRateLimit
RateLimitCharge(l, b, t) == IF l.set THEN Allow(b, t) ELSE b

\* CheckRequest returns err: ServeHTTP answers 429.
CheckRequestFails(r, check) ==
    /\ Answer(r, StatusTooManyRequests)
    /\ rErr' = [rErr EXCEPT ![r] = ErrorOf(check)]
    /\ rTrail' = [rTrail EXCEPT ![r] = Append(@, Stage("check", FALSE))]
\* The check passes: CheckRequest goes on to the next one.
CheckPasses(r, next) ==
    /\ pc' = [pc EXCEPT ![RouterT(r)] = next]
    /\ UNCHANGED <<rStatus, rErr, rTrail>>

\* Limiter.CheckRequest: CheckAgentRateLimit
CheckAgentRateLimit(r) ==
    /\ pc[RouterT(r)] = "CheckAgentRateLimit"
    /\ rChecks' = [rChecks EXCEPT ![r] =
                     Append(@, Seen("CheckAgentRateLimit", agentLimit, agentBucket))]
    /\ agentBucket' = RateLimitCharge(agentLimit, agentBucket, now)
    /\ IF RateLimitExceeded(agentLimit, agentBucket, now)
       THEN CheckRequestFails(r, "CheckAgentRateLimit")
       ELSE CheckPasses(r, "CheckDomainRateLimit")
    /\ qAlone' = DisturbAll
    /\ UNCHANGED <<AdmitFrame, agentLimit, domainLimit, domainBucket, rHeld, rAcq, rRel>>

\* Limiter.CheckRequest: CheckDomainRateLimit
CheckDomainRateLimit(r) ==
    /\ pc[RouterT(r)] = "CheckDomainRateLimit"
    /\ rChecks' = [rChecks EXCEPT ![r] =
                     Append(@, Seen("CheckDomainRateLimit", domainLimit, domainBucket))]
    /\ domainBucket' = RateLimitCharge(domainLimit, domainBucket, now)
    /\ IF RateLimitExceeded(domainLimit, domainBucket, now)
       THEN CheckRequestFails(r, "CheckDomainRateLimit")
       ELSE CheckPasses(r, "CheckAgentStreamLimit")
    /\ qAlone' = DisturbAll
    /\ UNCHANGED <<AdmitFrame, agentLimit, domainLimit, agentBucket, rHeld, rAcq, rRel>>

\* Limiter.CheckRequest: CheckAgentStreamLimit
CheckAgentStreamLimit(r) ==
    /\ pc[RouterT(r)] = "CheckAgentStreamLimit"
    /\ rChecks' = [rChecks EXCEPT ![r] =
                     Append(@, Seen("CheckAgentStreamLimit", agentLimit, agentBucket))]
    /\ agentLimit' = CheckStreamLimit(agentLimit)
    /\ IF LimitReached(agentLimit)
       THEN CheckRequestFails(r, "CheckAgentStreamLimit")
       ELSE CheckPasses(r, "CheckDomainStreamLimit")
    /\ qAlone' = DisturbAll
    /\ UNCHANGED <<AdmitFrame, domainLimit, agentBucket, domainBucket, rHeld, rAcq, rRel>>

\* Limiter.CheckRequest: CheckDomainStreamLimit, and return nil if it passes
CheckDomainStreamLimit(r) ==
    /\ pc[RouterT(r)] = "CheckDomainStreamLimit"
    /\ rChecks' = [rChecks EXCEPT ![r] =
                     Append(@, Seen("CheckDomainStreamLimit", domainLimit, domainBucket))]
    /\ domainLimit' = CheckStreamLimit(domainLimit)
    /\ IF LimitReached(domainLimit)
       THEN CheckRequestFails(r, "CheckDomainStreamLimit")
       ELSE /\ pc' = [pc EXCEPT ![RouterT(r)] = "GetConnection"]
            /\ rErr' = [rErr EXCEPT ![r] = "nil"]
            /\ rTrail' = [rTrail EXCEPT ![r] = Append(@, Stage("check", TRUE))]
            /\ UNCHANGED rStatus
    /\ qAlone' = DisturbAll
    /\ UNCHANGED <<AdmitFrame, agentLimit, agentBucket, domainBucket, rHeld, rAcq, rRel>>

\* AcquireStream returns err: ServeHTTP answers 429 and has deferred nothing.
AcquireStreamFails(r) ==
    /\ Answer(r, StatusTooManyRequests)
    /\ rTrail' = [rTrail EXCEPT ![r] = Append(@, Stage("acquire", FALSE))]

\* ServeHTTP, r.limiter.AcquireStream: CheckAgentStreamLimit
AcquireStreamCheckAgent(r) ==
    /\ pc[RouterT(r)] = "AcquireStream"
    /\ agentLimit' = CheckStreamLimit(agentLimit)
    /\ IF LimitReached(agentLimit)
       THEN AcquireStreamFails(r)
       ELSE /\ pc' = [pc EXCEPT ![RouterT(r)] = "AcquireStream_checkDomain"]
            /\ UNCHANGED <<rStatus, rTrail>>
    /\ qAlone' = DisturbAll
    /\ UNCHANGED <<AdmitFrame, domainLimit, agentBucket, domainBucket, rHeld, rAcq, rRel,
                   rChecks, rErr>>

\* ServeHTTP, r.limiter.AcquireStream: CheckDomainStreamLimit
AcquireStreamCheckDomain(r) ==
    /\ pc[RouterT(r)] = "AcquireStream_checkDomain"
    /\ domainLimit' = CheckStreamLimit(domainLimit)
    /\ IF LimitReached(domainLimit)
       THEN AcquireStreamFails(r)
       ELSE /\ pc' = [pc EXCEPT ![RouterT(r)] = "AcquireStream_incAgent"]
            /\ UNCHANGED <<rStatus, rTrail>>
    /\ qAlone' = DisturbAll
    /\ UNCHANGED <<AdmitFrame, agentLimit, agentBucket, domainBucket, rHeld, rAcq, rRel,
                   rChecks, rErr>>

\* ServeHTTP, r.limiter.AcquireStream: the agent's counter
AcquireStreamIncAgent(r) ==
    /\ pc[RouterT(r)] = "AcquireStream_incAgent"
    /\ agentLimit' = Increment(agentLimit)
    /\ pc' = [pc EXCEPT ![RouterT(r)] = "AcquireStream_incDomain"]
    /\ qAlone' = DisturbAll
    /\ UNCHANGED <<AdmitFrame, domainLimit, agentBucket, domainBucket, rStatus, rHeld, rAcq,
                   rRel, rTrail, rChecks, rErr>>

\* ServeHTTP, r.limiter.AcquireStream: the domain's counter, return nil, and
\* defer r.limiter.ReleaseStream(tunnel.AgentID, host)
AcquireStreamIncDomain(r) ==
    /\ pc[RouterT(r)] = "AcquireStream_incDomain"
    /\ domainLimit' = Increment(domainLimit)
    /\ pc' = [pc EXCEPT ![RouterT(r)] = "AllocateStreamID"]
    /\ rHeld' = [rHeld EXCEPT ![r] = TRUE]
    /\ rAcq' = [rAcq EXCEPT ![r] = @ + 1]
    /\ rTrail' = [rTrail EXCEPT ![r] = Append(@, Stage("acquire", TRUE))]
    /\ qAlone' = DisturbAll
    /\ UNCHANGED <<AdmitFrame, agentLimit, agentBucket, domainBucket, rStatus, rRel, rChecks,
                   rErr>>

\* The deferred r.limiter.ReleaseStream: the agent's counter
ReleaseStreamAgent(r) ==
    /\ pc[RouterT(r)] = "ReleaseStream"
    /\ agentLimit' = Decrement(agentLimit)
    /\ pc' = [pc EXCEPT ![RouterT(r)] = "ReleaseStream_decDomain"]
    /\ qAlone' = DisturbAll
    /\ UNCHANGED <<AdmitFrame, domainLimit, agentBucket, domainBucket, rStatus, rHeld, rAcq,
                   rRel, rTrail, rChecks, rErr>>

\* The deferred r.limiter.ReleaseStream: the domain's counter; ServeHTTP has returned
ReleaseStreamDomain(r) ==
    /\ pc[RouterT(r)] = "ReleaseStream_decDomain"
    /\ domainLimit' = Decrement(domainLimit)
    /\ pc' = [pc EXCEPT ![RouterT(r)] = "done"]
    /\ rHeld' = [rHeld EXCEPT ![r] = FALSE]
    /\ rRel' = [rRel EXCEPT ![r] = @ + 1]
    /\ qAlone' = DisturbAll
    /\ UNCHANGED <<AdmitFrame, agentLimit, agentBucket, domainBucket, rStatus, rAcq, rTrail,
                   rChecks, rErr>>

\* ------------------------------------------------------- specification
NextConn ==
    \/ \E c \in ConnIds : RegisterConnection(c)
    \/ \E c \in ConnIds : TimePasses(c)
    \/ \E c \in ConnIds, f \in LifecycleFrames : ReaderDecode(c, f, MaxFramesConn)
    \/ \E c \in ConnIds : ReaderDecodeErr(c)
    \/ \E c \in ConnIds : ReaderDeliver(c)
    \/ \E c \in ConnIds : LoopCtxDone(c)
    \/ \E c \in ConnIds : LoopTick(c)
    \/ \E c \in ConnIds : LoopErr(c)
    \/ \E c \in ConnIds : LoopRecvFrame(c)
    \/ \E c \in ConnIds : StreamLookup(c)
    \/ \E c \in ConnIds : createStream(c)
    \/ \E c \in ConnIds : StreamEnqueue(c)
    \/ \E c \in ConnIds : setState(c)
    \/ \E c \in ConnIds : closeStream(c)
    \/ \E t \in Threads : CloseCheck(t)
    \/ \E t \in Threads : CloseCancel(t)
    \/ \E t \in Threads : CloseStreams(t)
    \/ \E t \in Threads : CloseSock(t)
    \/ \E k \in Closers, c \in ConnIds : CloseConnection(k, c)
    \/ \E k \in Closers : CloseConnectionCallback(k)
    \/ \E s \in Subdomains, c \in ConnIds : RegisterTunnel(s, c)
    \/ \E d \in FullDomains : UnregisterTunnel(d)

\* The life cycle of connections: registration, the frame loop, CloseConnection
\* and the registry cleanup.
SpecConn == Init /\ [][NextConn]_vars

NextStream ==
    \/ \E c \in ConnIds : RegisterConnection(c)
    \/ \E c \in ConnIds, f \in DataPathFrames : ReaderDecode(c, f, MaxFramesData)
    \/ \E c \in ConnIds : ReaderDecodeErr(c)
    \/ \E c \in ConnIds : ReaderDeliver(c)
    \/ \E c \in ConnIds : LoopCtxDone(c)
    \/ \E c \in ConnIds : LoopErr(c)
    \/ \E c \in ConnIds : LoopRecvFrame(c)
    \/ \E c \in ConnIds : StreamLookup(c)
    \/ \E c \in ConnIds : createStream(c)
    \/ \E c \in ConnIds : StreamEnqueue(c)
    \/ \E c \in ConnIds : setState(c)
    \/ \E c \in ConnIds : closeStream(c)
    \/ \E c \in ConnIds, s \in StreamIds : Consume(c, s)
    \/ \E t \in Threads : CloseCheck(t)
    \/ \E t \in Threads : CloseCancel(t)
    \/ \E t \in Threads : CloseStreams(t)
    \/ \E t \in Threads : CloseSock(t)
    \/ \E k \in Closers, c \in ConnIds : CloseConnection(k, c)
    \/ \E k \in Closers : CloseConnectionCallback(k)

\* The data path of a stream: the agent's frames, the frame loop and a consumer
\* of data_in.
SpecStream == Init /\ [][NextStream]_vars

NextRouter ==
    \/ \E c \in ConnIds : RegisterConnection(c)
    \/ \E c \in ConnIds : RegisterTunnel("", c)
    \/ \E c \in ConnIds, f \in RouterFrames : ReaderDecode(c, f, MaxFramesRouter)
    \/ \E c \in ConnIds : ReaderDecodeErr(c)
    \/ \E c \in ConnIds : ReaderDeliver(c)
    \/ \E c \in ConnIds : LoopErr(c)
    \/ \E c \in ConnIds : LoopRecvFrame(c)
    \/ \E c \in ConnIds : StreamLookup(c)
    \/ \E c \in ConnIds : createStream(c)
    \/ \E c \in ConnIds : StreamEnqueue(c)
    \/ \E c \in ConnIds : setState(c)
    \/ \E c \in ConnIds : closeStream(c)
    \/ \E t \in Threads : CloseCheck(t)
    \/ \E t \in Threads : CloseCancel(t)
    \/ \E t \in Threads : CloseStreams(t)
    \/ \E t \in Threads : CloseSock(t)
    \/ \E r \in Routers, host \in FullDomains, body \in Bodies : ServeHTTP(r, host, body)
    \/ \E r \in Routers : GetConnection(r)
    \/ \E r \in Routers : AllocateStreamID(r)
    \/ \E r \in Routers : SendFrame(r)
    \/ \E r \in Routers : EncodeBegin(r)
    \/ \E r \in Routers : EncodeEnd(r)
    \/ \E r \in Routers : GetStream(r)
    \/ \E r \in Routers : RequestTimeout(r)
    \/ \E r \in Routers : WaitCtxDone(r)
    \/ \E r \in Routers : WaitDataIn(r)
    \/ \E r \in Routers : WaitCloseCh(r)

\* HTTP requests routed to a connection while its agent sends frames.
SpecRouter == Init /\ [][NextRouter]_vars

\* The frames the agent sends while requests hold stream slots: it opens
\* stream 1 and ends it.
ServeFrames == {f \in StreamFrames : f.type = "OPEN_STREAM" \/ (f.type = "DATA" /\ f.end)}

\* The limits of the agent and of its domain are configured: they are when the
\* agent registers, before requests for its domain are routed.
Configured == agentLimit.set /\ domainLimit.set

NextServe ==
    \/ \E c \in ConnIds : RegisterConnection(c)
    \/ \E c \in ConnIds : RegisterTunnel("", c)
    \/ \E c \in ConnIds, f \in ServeFrames : ReaderDecode(c, f, MaxFramesRouter)
    \/ \E c \in ConnIds : nSent[c] = 0 /\ ReaderDecodeErr(c)
    \/ \E c \in ConnIds : ReaderDeliver(c)
    \/ \E c \in ConnIds : LoopErr(c)
    \/ \E c \in ConnIds : LoopRecvFrame(c)
    \/ \E c \in ConnIds : StreamLookup(c)
    \/ \E c \in ConnIds : createStream(c)
    \/ \E c \in ConnIds : StreamEnqueue(c)
    \/ \E c \in ConnIds : setState(c)
    \/ \E c \in ConnIds : closeStream(c)
    \/ \E t \in Threads : CloseCheck(t)
    \/ \E t \in Threads : CloseCancel(t)
    \/ \E t \in Threads : CloseStreams(t)
    \/ \E t \in Threads : CloseSock(t)
    \/ SetAgentLimit(2, 2)
    \/ SetDomainLimit(1, 2)
    \/ \E r \in Routers : Configured /\ ServeHTTP(r, BaseDomain, "")
    \/ \E r \in Routers : CheckAgentRateLimit(r)
    \/ \E r \in Routers : CheckDomainRateLimit(r)
    \/ \E r \in Routers : CheckAgentStreamLimit(r)
    \/ \E r \in Routers : CheckDomainStreamLimit(r)
    \/ \E r \in Routers : GetConnection(r)
    \/ \E r \in Routers : AcquireStreamCheckAgent(r)
    \/ \E r \in Routers : AcquireStreamCheckDomain(r)
    \/ \E r \in Routers : AcquireStreamIncAgent(r)
    \/ \E r \in Routers : AcquireStreamIncDomain(r)
    \/ \E r \in Routers : AllocateStreamID(r)
    \/ \E r \in Routers : SendFrame(r)
    \/ \E r \in Routers : EncodeBegin(r)
    \/ \E r \in Routers : EncodeEnd(r)
    \/ \E r \in Routers : GetStream(r)
    \/ \E r \in Routers : RequestTimeout(r)
    \/ \E r \in Routers : WaitCtxDone(r)
    \/ \E r \in Routers : WaitDataIn(r)
    \/ \E r \in Routers : WaitCloseCh(r)
    \/ \E r \in Routers : ReleaseStreamAgent(r)
    \/ \E r \in Routers : ReleaseStreamDomain(r)

\* Requests that hold stream slots while the agent answers, stays silent, or
\* hangs up having sent nothing: every way out of ServeHTTP after AcquireStream.
SpecServe == InitLimited /\ [][NextServe]_vars

\* A step of the frame loop's goroutine of connection c, when nothing but the
\* loop's own deferred Close cancels the connection's context.
LoopStep(c) ==
    \/ LoopTick(c) \/ LoopErr(c) \/ LoopRecvFrame(c)
    \/ StreamLookup(c) \/ createStream(c) \/ StreamEnqueue(c) \/ setState(c) \/ closeStream(c)
\* A step of the reader goroutine that does not wait for the agent: the
\* delivery of a decoded frame, and the decode error that the read deadline
\* brings when no frame arrives.
ReaderStep(c) == ReaderDeliver(c) \/ ReaderDecodeErr(c)
\* A step of thread t inside Connection.Close.
CloseStep(t) == CloseCheck(t) \/ CloseCancel(t) \/ CloseStreams(t) \/ CloseSock(t)
\* The Go scheduler runs every goroutine that can take a step; the agent and
\* the passing of time are under no obligation.
Scheduling ==
    /\ \A c \in ConnIds : WF_vars(LoopStep(c)) /\ WF_vars(ReaderStep(c))
    /\ \A t \in Threads : WF_vars(CloseStep(t))

NextHeartbeat ==
    \/ \E c \in ConnIds : RegisterConnection(c)
    \/ \E c \in ConnIds : TimePasses(c)
    \/ \E c \in ConnIds, f \in LifecycleFrames : ReaderDecode(c, f, MaxFramesConn)
    \/ \E c \in ConnIds : ReaderStep(c)
    \/ \E c \in ConnIds : LoopStep(c)
    \/ \E t \in Threads : CloseStep(t)

\* A connection left to itself: the agent's frames, the heartbeat timeout, the
\* frame loop and its deferred Close, every goroutine being scheduled.
SpecHeartbeat == Init /\ [][NextHeartbeat]_vars /\ Scheduling

\* What a flooding agent sends as its n-th frame: it opens stream 1 and then
\* sends DATA for it without end.
FloodFrame(n) ==
    IF n = 0 THEN Frame("OPEN_STREAM", 1, FALSE, "") ELSE Frame("DATA", 1, FALSE, "ab")
\* A step of the frame loop under the flood, where no frame ends a stream.
FloodLoopStep(c) ==
    \/ LoopTick(c) \/ LoopErr(c) \/ LoopRecvFrame(c)
    \/ StreamLookup(c) \/ createStream(c) \/ StreamEnqueue(c)
FloodScheduling ==
    /\ \A c \in ConnIds : WF_vars(FloodLoopStep(c)) /\ WF_vars(ReaderStep(c))
    /\ \A t \in Threads : WF_vars(CloseStep(t))

NextFlood ==
    \/ \E c \in ConnIds : RegisterConnection(c)
    \/ \E c \in ConnIds : TimePasses(c)
    \/ \E c \in ConnIds : ReaderDecode(c, FloodFrame(nSent[c]), MaxFramesFlood)
    \/ \E c \in ConnIds : ReaderStep(c)
    \/ \E c \in ConnIds : FloodLoopStep(c)
    \/ \E t \in Threads : CloseStep(t)

\* A connection whose streams nobody drains: there is no consumer of data_in.
SpecFlood == Init /\ [][NextFlood]_vars /\ FloodScheduling

NextManager ==
    \/ \E c \in AllConns : RegisterConnectionCall(c)
    \/ \E c \in AllConns : TimePasses(c)
    \/ \E c \in AllConns : ReaderDecodeErr(c)
    \/ \E c \in AllConns : LoopCtxDone(c)
    \/ \E c \in AllConns : LoopTick(c)
    \/ \E c \in AllConns : LoopErr(c)
    \/ \E t \in Threads : CloseStep(t)
    \/ \E k \in Closers, c \in AllConns : CloseConnection(k, c)
    \/ \E k \in Closers : CloseConnectionCallback(k)

\* The manager's map of connections: registrations under any limit, with silent
\* agents, and the ways a connection leaves the map or ends.
SpecManager == InitManager /\ [][NextManager]_vars

NextAuth == \E f \in AuthFrames : HandleAuthCall(f)

\* HandleAuth on any first frames, under any validator.
SpecAuth == InitAuth /\ [][NextAuth]_vars

NextLimits ==
    \/ \E m \in Limits, rl \in RateLimits : SetAgentLimit(m, rl)
    \/ \E i \in QuotaCallers : GetAgentLimit(i)
    \/ \E i \in QuotaCallers : GetDomainLimitRLock(i)
    \/ \E i \in QuotaCallers : GetDomainLimitReturn(i)
    \/ \E i \in QuotaCallers : SetDomainLimitLock(i)
    \/ \E i \in QuotaCallers, m \in Limits, rl \in RateLimits : SetDomainLimitStore(i, m, rl)

\* Concurrent callers that set and look up the limits of one agent and one domain.
SpecLimits == Init /\ [][NextLimits]_vars

NextControl ==
    \/ \E c \in ConnIds : RegisterConnection(c)
    \/ \E c \in ConnIds : TimePasses(c)
    \/ \E c \in ConnIds, f \in ControlStreamFrames : ReaderDecode(c, f, MaxFramesConn)
    \/ \E c \in ConnIds : ReaderStep(c)
    \/ \E c \in ConnIds : LoopStep(c)
    \/ \E t \in Threads : CloseStep(t)

\* A connection whose agent sends every frame type on the control stream too.
SpecControl == Init /\ [][NextControl]_vars

\* The caller that registers and unregisters while lookups are made.
Registrar == CHOOSE i \in RegCallers : TRUE

NextAccess ==
    \/ ClockTick
    \/ \E c \in AllConns : RegisterTunnelInsert(Registrar, "", c, NoMeta)
    \/ RegisterTunnelTrack(Registrar)
    \/ UnregisterTunnelCall(Registrar, BaseDomain)
    \/ UnregisterTunnelDelete(Registrar)
    \/ UnregisterTunnelUntrack(Registrar)
    \/ \E d \in FullDomains : GetTunnel(d)
    \/ \E k \in 1..MaxPendingRefreshes : RefreshLastAccess(k)

\* Lookups and their last-access goroutines among the registrations and
\* unregistrations of the base domain by two connections, while the clock
\* advances.
SpecAccess == Init /\ [][NextAccess]_vars

NextResponse ==
    \/ \E c \in ConnIds : RegisterConnection(c)
    \/ \E c \in ConnIds : RegisterTunnel("", c)
    \/ \E c \in ConnIds, f \in ResponseFrames : ReaderDecode(c, f, MaxFramesResponse)
    \/ \E c \in ConnIds : ReaderDeliver(c)
    \/ \E c \in ConnIds : LoopRecvFrame(c)
    \/ \E c \in ConnIds : StreamLookup(c)
    \/ \E c \in ConnIds : createStream(c)
    \/ \E c \in ConnIds : StreamEnqueue(c)
    \/ \E c \in ConnIds : setState(c)
    \/ \E c \in ConnIds : closeStream(c)
    \/ \E t \in Threads : CloseStep(t)
    \/ \E r \in Routers : ServeHTTP(r, BaseDomain, "")
    \/ \E r \in Routers : GetConnection(r)
    \/ \E r \in Routers : AllocateStreamID(r)
    \/ \E r \in Routers : SendFrame(r)
    \/ \E r \in Routers : EncodeBegin(r)
    \/ \E r \in Routers : EncodeEnd(r)
    \/ \E r \in Routers : GetStream(r)
    \/ \E r \in Routers : RequestTimeout(r)
    \/ \E r \in Routers : WaitCtxDone(r)
    \/ \E r \in Routers : WaitDataIn(r)
    \/ \E r \in Routers : WaitCloseCh(r)

\* Requests without a body routed to a connection whose agent answers on the
\* stream with data and END_STREAM.
SpecResponse == Init /\ [][NextResponse]_vars

NextAccept ==
    \/ \E c \in AllConns : AcceptorDecodeErr(c)
    \/ \E c \in AllConns, f \in AuthFrames, sent \in BOOLEAN : AcceptorAuth(c, f, sent)
    \/ \E c \in AllConns : AcceptorRegister(c)
    \/ \E c \in AllConns : AcceptorDone(c)
    \/ \E c \in AllConns : TimePasses(c)
    \/ \E c \in AllConns : ReaderDecodeErr(c)
    \/ \E c \in AllConns : LoopTick(c)
    \/ \E c \in AllConns : LoopErr(c)
    \/ \E t \in Threads : CloseStep(t)

\* The agent acceptor: sockets whose first frame is any frame, under any limit
\* of connections, and the end of the connections it registers.
SpecAccept == InitManager /\ [][NextAccept]_vars

\* The Host header of requests: none, and the base domain.
Hosts == {"", BaseDomain}

NextAdmit ==
    \/ \E c \in ConnIds : RegisterConnection(c)
    \/ \E c \in ConnIds : RegisterTunnel("", c)
    \/ \E t \in Threads : CloseCheck(t)
    \/ \E t \in Threads : CloseCancel(t)
    \/ \E t \in Threads : CloseStreams(t)
    \/ \E t \in Threads : CloseSock(t)
    \/ \E k \in Closers, c \in ConnIds : CloseConnection(k, c)
    \/ \E k \in Closers : CloseConnectionCallback(k)
    \/ SetAgentLimit(1, 1)
    \/ SetDomainLimit(1, 1)
    \/ \E r \in Routers, host \in Hosts : ServeHTTP(r, host, "")
    \/ \E r \in Routers : CheckAgentRateLimit(r)
    \/ \E r \in Routers : CheckDomainRateLimit(r)
    \/ \E r \in Routers : CheckAgentStreamLimit(r)
    \/ \E r \in Routers : CheckDomainStreamLimit(r)
    \/ \E r \in Routers : GetConnection(r)
    \/ \E r \in Routers : AcquireStreamCheckAgent(r)
    \/ \E r \in Routers : AcquireStreamCheckDomain(r)
    \/ \E r \in Routers : AcquireStreamIncAgent(r)
    \/ \E r \in Routers : AcquireStreamIncDomain(r)
    \/ \E r \in Routers : AllocateStreamID(r)
    \/ \E r \in Routers : SendFrame(r)
    \/ \E r \in Routers : EncodeBegin(r)
    \/ \E r \in Routers : EncodeEnd(r)
    \/ \E r \in Routers : GetStream(r)
    \/ \E r \in Routers : ReleaseStreamAgent(r)
    \/ \E r \in Routers : ReleaseStreamDomain(r)

\* The admission of HTTP requests by a router that has a limiter, while the agent
\* is silent, limits are configured and the connection is closed.
SpecAdmit == InitLimited /\ [][NextAdmit]_vars

NextRegistry ==
    \/ \E i \in RegCallers, sd \in Subdomains, c \in AllConns :
            RegisterTunnelInsert(i, sd, c, NoMeta)
    \/ \E i \in RegCallers : RegisterTunnelTrack(i)
    \/ \E i \in RegCallers, d \in FullDomains : UnregisterTunnelCall(i, d)
    \/ \E i \in RegCallers : UnregisterTunnelDelete(i)
    \/ \E i \in RegCallers : UnregisterTunnelUntrack(i)
    \/ \E i \in RegCallers, c \in AllConns : UnregisterConnectionTunnelsCopy(i, c)
    \/ \E i \in RegCallers : UnregisterConnectionTunnelsLoop(i)

\* Concurrent callers of the registry.
SpecRegistry == Init /\ [][NextRegistry]_vars

NextTunnels ==
    \/ now = 0 /\ ClockTick
    \/ \E i \in RegCallers, sd \in Subdomains, c \in AllConns, meta \in Metadatas :
            RegisterTunnelInsert(i, sd, c, meta)
    \/ \E i \in RegCallers : RegisterTunnelTrack(i)
    \/ \E i \in RegCallers, d \in FullDomains : UnregisterTunnelCall(i, d)
    \/ \E i \in RegCallers : UnregisterTunnelDelete(i)
    \/ \E i \in RegCallers : UnregisterTunnelUntrack(i)

\* Concurrent callers that register and unregister tunnels with metadata; the
\* clock advances once, at any moment.
SpecTunnels == Init /\ [][NextTunnels]_vars

NextQuota ==
    \/ \E m \in Limits, rl \in RateLimits : SetAgentLimit(m, rl)
    \/ \E m \in Limits, rl \in RateLimits : SetDomainLimit(m, rl)
    \/ \E i \in QuotaCallers : AcquireCheckAgent(i)
    \/ \E i \in QuotaCallers : AcquireCheckDomain(i)
    \/ \E i \in QuotaCallers : AcquireIncAgent(i)
    \/ \E i \in QuotaCallers : AcquireIncDomain(i)
    \/ \E i \in QuotaCallers : ReleaseDecAgent(i)
    \/ \E i \in QuotaCallers : ReleaseDecDomain(i)

\* Concurrent callers of the limiter, for one agent and one domain.
SpecQuota == Init /\ [][NextQuota]_vars

NextBucket ==
    \/ ClockTick
    \/ \E p \in BucketParams : CreateBucket(p[1], p[2])
    \/ CallAllow
    \/ \E n \in BucketNs : CallAllowN(n)
    \/ CallGetStats

\* Any schedule of calls on one token bucket.
SpecBucket == Init /\ [][NextBucket]_vars

\* ------------------------------------------------------------ claims

Seq2Payloads(fs) == [i \in 1..Len(fs) |-> fs[i].payload]
IsPrefix(a, b) == Len(a) <= Len(b) /\ \A i \in 1..Len(a) : a[i] = b[i]
\* the position of the first END_STREAM frame of fs, 0 when it has none
FirstEnd(fs) ==
    IF \E i \in 1..Len(fs) : fs[i].end
    THEN CHOOSE i \in 1..Len(fs) : fs[i].end /\ \A j \in 1..(i - 1) : ~fs[j].end
    ELSE 0
\* every payload put on the stream's data_in so far, taken or not
Delivered(c, s) == consumed[c][s] \o dataIn[c][s]

\* A CloseConnection call for c is between its map deletion and its return.
ClosingNow(c) ==
    \E k \in Closers : tconn[CloserT(k)] = c
                       /\ pc[CloserT(k)] \notin {"idle", "notfound", "returned"}
\* The connection has terminated: its frame loop has exited and its deferred
\* Close has returned, and no CloseConnection call for it is still running.
Terminated(c) == pc[LoopT(c)] = "done" /\ ~ClosingNow(c)

\* C1: once a connection has terminated, for whatever reason, none of its
\* streams is left in its stream table and no tunnel naming it is left in
\* either index of the registry.
C1_TerminatedConnectionCleanedUp ==
    \A c \in ConnIds :
        Terminated(c) =>
            /\ streams[c] = {}
            /\ connTunnels[c] = {}
            /\ \A d \in FullDomains : tunnels[d].conn # c

\* C4: once a connection has terminated, for whatever reason, on_connection_closed
\* has been invoked exactly once for its id.
C4_CallbackExactlyOnce ==
    \A c \in ConnIds : Terminated(c) => cbCount[c] = 1

\* A thread has come back from the Close call that tore connection c down.
ReturnedFromTeardown(t, c) ==
    /\ closedBy[c] = t
    /\ pc[t] \in {"done", "cc_callback", "returned"}

\* C5: Close on a connection with any number of live streams returns (the thread
\* in it never waits for a mutex that only itself can release), and when the
\* call that did the teardown has returned, the closed flag is set, the context
\* is cancelled, the stream table is empty, every stream's close signal has
\* fired and the socket is closed.
C5_CloseReturnsTornDown ==
    \A t \in Threads :
        /\ pc[t] = "Close_closeStream" => streamsMu[tconn[t]] # t
        /\ \A c \in ConnIds :
            ReturnedFromTeardown(t, c) =>
                /\ closed[c] /\ ctxDone[c] /\ sockClosed[c]
                /\ streams[c] = {}
                /\ \A s \in StreamIds : sState[c][s] # "NONE" => closeFired[c][s]

C8_ClosedStreamSignalled ==
    \A c \in ConnIds, s \in StreamIds :
        sState[c][s] \in {"CLOSED", "ERROR"} =>
            \/ closeFired[c][s]
            \/ /\ pc[LoopT(c)] = "hsf_closeStream"
               /\ frame[LoopT(c)].sid = s
               /\ streamsMu[c] = Free

\* C6: the id AllocateStreamID returns is not the id of a stream live on the
\* connection at that time, no two requests on a connection get the same id,
\* and next_stream_id has moved past every id handed out.
C6_AllocatedIdNotLive ==
    \A r \in Routers :
        rStream[r] # 0 =>
            /\ rStream[r] \notin rLive[r]
            /\ rStream[r] < nextStreamID[tconn[RouterT(r)]]
            /\ \A q \in Routers \ {r} :
                tconn[RouterT(q)] = tconn[RouterT(r)] => rStream[q] # rStream[r]

\* C9: at most one task at a time is executing the frame encoder on a
\* connection's socket.
C9_SingleWriter ==
    \A c \in ConnIds : Cardinality(encoding[c]) <= 1

\* The frames handleRequest is to emit for request r, in order.
ExpectedFrames(r) ==
    <<Frame("OPEN_STREAM", rStream[r], FALSE, RequestPayload)>>
    \o (IF rBody[r] # "" THEN <<BodyFrame(rStream[r], rBody[r])>> ELSE <<>>)
    \o <<EndFrame(rStream[r])>>

\* C10: a request that passed admission, whose connection is live and whose
\* deadline has not passed, is answered only after OPEN_STREAM, the body's DATA
\* frame if the body is not empty, and the empty END_STREAM DATA frame were
\* emitted in that order on its stream id, and the answer is 200 with the bytes
\* received or 204 when none were received.
C10_RoutedRequestAnswered ==
    \A r \in Routers :
        ( /\ pc[RouterT(r)] = "done"
          /\ rStream[r] # 0
          /\ ~closed[tconn[RouterT(r)]]
          /\ ~rDeadline[r] ) =>
            /\ rSent[r] = ExpectedFrames(r)
            /\ rStatus[r] = (IF rResp[r] # "" THEN StatusOK ELSE StatusNoContent)

\* No registry call is between its first step and its return.
RegistryQuiescent == \A i \in RegCallers : pc[RegT(i)] = "idle"

\* C2: whenever no registry call is mid-execution, a full domain has a record in
\* tunnels if and only if it is present in connTunnels of the record's
\* connection.
C2_IndicesAgree ==
    RegistryQuiescent =>
        \A d \in FullDomains :
            /\ tunnels[d] # NoTunnel => d \in connTunnels[tunnels[d].conn]
            /\ \A c \in AllConns : d \in connTunnels[c] => tunnels[d].conn = c

\* C3: for the configured agent limit and domain limit,
\* 0 <= current_streams <= max_streams in every reachable state.
C3_CountersWithinLimit ==
    /\ agentLimit.set => (0 <= agentLimit.cur /\ agentLimit.cur <= agentLimit.max)
    /\ domainLimit.set => (0 <= domainLimit.cur /\ domainLimit.cur <= domainLimit.max)

ScenarioTimes == <<0, 0, 0, 0, TicksPerSecond, TicksPerSecond>>
ScenarioOk == <<TRUE, TRUE, TRUE, FALSE, TRUE, FALSE>>
FollowsScenario(k) ==
    /\ k <= Len(ScenarioTimes)
    /\ \A i \in 1..k : tbLog[i].op = "Allow" /\ tbLog[i].t = ScenarioTimes[i]

\* C19: a call of allow_n(n) (allow() being n = 1) first refills the level to
\* min(capacity, tokens + elapsed * refill_rate) and sets last_refill to now; it
\* returns true and takes n tokens if the level is at least n, else returns
\* false and takes nothing.  So a full bucket of capacity 3 and refill 1/s
\* allows three calls, denies the fourth, allows one call a second later and
\* denies the next.
C19_AllowNSemantics ==
    /\ (tbLog # <<>> /\ tbLog[Len(tbLog)].op \in {"Allow", "AllowN"}) =>
        LET e == tbLog[Len(tbLog)]
            refilled == tbPrev.tokens + (e.t - tbPrev.lastRefill) * tbPrev.refillRate
            level == IF refilled < Tokens(tbPrev.capacity) THEN refilled
                     ELSE Tokens(tbPrev.capacity)
        IN  /\ e.ok = (level >= Tokens(e.n))
            /\ tb.tokens = (IF e.ok THEN level - Tokens(e.n) ELSE level)
            /\ tb.lastRefill = e.t
    /\ (tb.made /\ tb.capacity = 3 /\ tb.refillRate = 1) =>
        \A k \in 1..Len(tbLog) : FollowsScenario(k) => tbLog[k].ok = ScenarioOk[k]

\* C19's case: the six calls of the scenario have been made on the (3, 1/s) bucket.
C19_Witness ==
    /\ tb.capacity = 3 /\ tb.refillRate = 1
    /\ Len(tbLog) = Len(ScenarioTimes)
    /\ FollowsScenario(Len(tbLog))
    /\ \A k \in 1..Len(tbLog) : tbLog[k].ok = ScenarioOk[k]

\* The number of Allow() calls that returned true at times a..b.
AllowedIn(a, b) ==
    Cardinality({i \in 1..Len(tbLog) :
                    tbLog[i].op = "Allow" /\ tbLog[i].ok /\ a <= tbLog[i].t /\ tbLog[i].t <= b})
\* At most capacity + refill_rate * T calls were allowed in every interval so far.
RateBounded ==
    \A a \in 0..MaxTime, b \in 0..MaxTime :
        (a <= b /\ b <= now) =>
            Tokens(AllowedIn(a, b)) <= Tokens(tb.capacity) + tb.refillRate * (b - a)

\* C20 (as claimed): for every bucket and every schedule, over any interval of
\* length T at most capacity + refill_rate * T calls of allow() return true.
C20_RateBoundEveryBucket == tb.made => RateBounded

\* C20 (amended): the same bound, for a bucket whose capacity and refill rate
\* are not negative.
C20_RateBound == (tb.made /\ tb.capacity >= 0 /\ tb.refillRate >= 0) => RateBounded

\* C20's case: a bucket of capacity 1 and refill 1/s has allowed two calls one
\* second apart, which is all the bound permits.
C20_Witness ==
    /\ tb.capacity = 1 /\ tb.refillRate = 1
    /\ now >= TicksPerSecond
    /\ AllowedIn(0, TicksPerSecond) = 2

\* The callers that hold a stream slot: AcquireStream returned nil to them and
\* they have not called ReleaseStream yet.
SlotHolders == {i \in QuotaCallers : pc[QuotaT(i)] = "acquired"}

\* C14: the number of stream slots held at the same time never exceeds the
\* limiter's global max_streams, whether or not the agent and the domain have
\* a limit of their own.
C14_GlobalStreamLimit == Cardinality(SlotHolders) <= MaxStreams

\* C15: an AcquireStream that returns the agent's or the domain's limit error
\* has changed neither counter; run alone with room under the agent's cap and
\* the domain's cap full, it leaves the agent's counter as it was.
C15_DeniedAcquireChangesNothing ==
    \A i \in QuotaCallers :
        qRes[i] \in {"agent", "domain"} =>
            /\ qDid[i] = NoChange
            /\ qAlone[i] => Counters = qBefore[i]

\* C15's case: the agent's cap has room, the domain's cap is full, and the call
\* was denied for the domain.
C15_Witness ==
    \E i \in QuotaCallers :
        /\ qRes[i] = "domain" /\ qAlone[i]
        /\ agentLimit.set /\ agentLimit.cur < agentLimit.max
        /\ domainLimit.set /\ domainLimit.cur >= domainLimit.max

\* C16: a successful AcquireStream followed by ReleaseStream, with no other
\* limiter call in between, leaves both counters as they were before the
\* acquire; and no counter is ever negative.
C16_AcquireReleaseIdentity ==
    /\ agentLimit.cur >= 0 /\ domainLimit.cur >= 0
    /\ \A i \in QuotaCallers :
        (qRes[i] = "released" /\ qAlone[i]) => Counters = qBefore[i]

\* C16's case: a caller has acquired and released, undisturbed, with both
\* limits configured and another slot held meanwhile.
C16_Witness ==
    \E i \in QuotaCallers :
        /\ qRes[i] = "released" /\ qAlone[i]
        /\ agentLimit.set /\ domainLimit.set
        /\ qBefore[i].agent = 1 /\ agentLimit.cur = 1

\* C12: a request whose deadline passed while its stream's close signal had not
\* fired is answered 504 (gateway timeout), not the 500 of an encode error.
C12_DeadlineGivesGatewayTimeout ==
    \A r \in Routers :
        ( /\ pc[RouterT(r)] = "done"
          /\ rDeadline[r]
          /\ rStream[r] \in StreamIds
          /\ ~closeFired[tconn[RouterT(r)]][rStream[r]] ) =>
            rStatus[r] = 504


\* The admission stages in the order the claim gives them, and the status of a
\* request that fails one.
AdmissionOrder == <<"host", "tunnel", "check", "conn", "acquire">>
AdmissionStatus(stage) ==
    CASE stage = "host" -> StatusBadRequest
      [] stage = "tunnel" -> StatusNotFound
      [] stage = "check" -> StatusTooManyRequests
      [] stage = "conn" -> StatusServiceUnavailable
      [] stage = "acquire" -> StatusTooManyRequests
\* The stages were gone through in the order, each one after the previous passed.
InOrder(tr) ==
    /\ Len(tr) <= Len(AdmissionOrder)
    /\ \A i \in 1..Len(tr) : tr[i].stage = AdmissionOrder[i] /\ (i < Len(tr) => tr[i].ok)
\* The request failed a stage.
Denied(r) == rTrail[r] # <<>> /\ ~rTrail[r][Len(rTrail[r])].ok
\* The requests whose AcquireStream has incremented the agent's counter, or the
\* domain's, and whose ReleaseStream has not finished.
AgentSlotHolders == {r \in Routers : pc[RouterT(r)] = "AcquireStream_incDomain" \/ rHeld[r]}
DomainSlotHolders == {r \in Routers : rHeld[r]}

\* C13: a request goes through host, tunnel, check_request, connection and
\* acquire_stream in that order and stops at the first that fails, answered 400,
\* 404, 429, 503 and 429 respectively; a stream id is allocated only after all
\* five passed; a request that failed one has no stream id, has sent no frame,
\* has no release pending, and no counter counts a slot for it.
C13_AdmissionOrder ==
    /\ \A r \in Routers :
        /\ InOrder(rTrail[r])
        /\ rStream[r] # 0 =>
              Len(rTrail[r]) = Len(AdmissionOrder) /\ ~Denied(r)
        /\ Denied(r) =>
              /\ pc[RouterT(r)] = "done"
              /\ rStatus[r] = AdmissionStatus(rTrail[r][Len(rTrail[r])].stage)
              /\ rStream[r] = 0
              /\ rSent[r] = <<>>
              /\ ~rHeld[r] /\ rAcq[r] = 0 /\ rRel[r] = 0
    /\ agentLimit.cur <= Cardinality(AgentSlotHolders)
    /\ domainLimit.cur <= Cardinality(DomainSlotHolders)

\* A request is denied by acquire_stream while the other request holds the slot.
C13_Witness ==
    \E r, q \in Routers :
        /\ Denied(r) /\ Len(rTrail[r]) = Len(AdmissionOrder)
        /\ rStatus[r] = StatusTooManyRequests
        /\ rHeld[q] /\ agentLimit.cur = 1


\* The checks of check_request in the order the claim gives them, with the
\* error of each.
CheckOrder == <<"CheckAgentRateLimit", "CheckDomainRateLimit",
                "CheckAgentStreamLimit", "CheckDomainStreamLimit">>
CheckErrors == <<"ErrAgentRateLimitExceeded", "ErrDomainRateLimitExceeded",
                 "ErrAgentStreamLimitExceeded", "ErrDomainStreamLimitExceeded">>
\* From what a check saw: the key has a limit, and less than one token is left
\* (rate) or the streams in use have reached the maximum (stream cap).
Fails(e) ==
    /\ e.set
    /\ IF e.check \in RateChecks THEN e.level < e.bound ELSE e.level >= e.bound

\* C17: check_request runs the agent rate, domain rate, agent stream cap and
\* domain stream cap checks in that order, each one only after the previous
\* passed; it returns the error of the check that fails, and success only after
\* all four passed; a check on a key without a limit does not fail.
C17_CheckRequestFirstFailure ==
    \A r \in Routers :
        LET ch == rChecks[r]
            n == Len(ch) IN
        /\ n <= Len(CheckOrder)
        /\ \A i \in 1..n : ch[i].check = CheckOrder[i] /\ (i < n => ~Fails(ch[i]))
        /\ rErr[r] = "none" => \A i \in 1..n : ~Fails(ch[i])
        /\ rErr[r] = "nil" => n = Len(CheckOrder) /\ \A i \in 1..n : ~Fails(ch[i])
        /\ rErr[r] \notin {"none", "nil"} => n >= 1 /\ Fails(ch[n]) /\ rErr[r] = CheckErrors[n]

\* A check_request is refused by its last check, the domain's stream cap, after
\* the three before it passed, the agent having a limit.
C17_Witness ==
    \E r \in Routers :
        /\ rErr[r] = "ErrDomainStreamLimitExceeded"
        /\ Len(rChecks[r]) = Len(CheckOrder)
        /\ rChecks[r][1].set


\* No request is in flight: every handler has returned or has not started.
NoRequestInFlight == \A r \in Routers : pc[RouterT(r)] \in {"idle", "done"}

\* C11: a request releases at most once and only what it acquired; when its
\* handler has returned, by whatever exit, a successful acquire_stream has been
\* followed by exactly one release_stream, and a denied acquire_stream by none;
\* when no request is in flight every current_streams counter is back at 0, its
\* value before the requests started.
C11_AcquireMatchedByRelease ==
    /\ \A r \in Routers :
        /\ rRel[r] <= rAcq[r] /\ rAcq[r] <= 1
        /\ rHeld[r] <=> (rAcq[r] = 1 /\ rRel[r] = 0)
        /\ pc[RouterT(r)] = "done" => rRel[r] = rAcq[r]
        /\ (Denied(r) /\ rTrail[r][Len(rTrail[r])].stage = "acquire") =>
              rAcq[r] = 0 /\ rRel[r] = 0
    /\ NoRequestInFlight => agentLimit.cur = 0 /\ domainLimit.cur = 0

\* Two requests have returned, each after one acquire and one release: one by
\* normal completion, one because its stream was missing; the counters of the
\* configured limits are back at 0.
C11_Witness ==
    \E r, q \in Routers :
        /\ pc[RouterT(r)] = "done" /\ pc[RouterT(q)] = "done"
        /\ rStatus[r] = StatusNoContent /\ rAcq[r] = 1 /\ rRel[r] = 1
        /\ rStatus[q] = StatusInternalServerError /\ rAcq[q] = 1 /\ rRel[q] = 1
        /\ rSent[q] # <<>> /\ ~rDeadline[q] /\ ~closed[tconn[RouterT(q)]]
        /\ agentLimit.set /\ domainLimit.set
        /\ agentLimit.cur = 0 /\ domainLimit.cur = 0


\* C21: a DATA frame for a stream id that is not in the stream table, or whose
\* stream's close signal fires during the enqueue, does not end the frame loop:
\* while the connection is not cancelled, the dispatch of a DATA frame never
\* leads to the loop's exit and Close.
C21_DataErrorIsStreamFatalOnly ==
    [][\A c \in ConnIds :
          ( /\ pc[LoopT(c)] \in {"hsf_lookup", "hsf_enqueue"}
            /\ frame[LoopT(c)].type = "DATA"
            /\ ~ctxDone[c] ) => pc'[LoopT(c)] # "Close"]_vars


\* The teardown of connection c is complete: the frame loop has exited, the
\* closed flag is set and the socket is closed.
ClosedByManager(c) == pc[LoopT(c)] = "done" /\ closed[c] /\ sockClosed[c]

\* C22: a connection whose last heartbeat is older than the timeout is
\* eventually closed (frame loop exited, closed flag set, socket closed), unless
\* a heartbeat that was already on its way renews it first.
C22_HeartbeatTimeoutCloses ==
    \A c \in ConnIds : hbExpired[c] ~> (ClosedByManager(c) \/ ~hbExpired[c])


\* The flood has stalled connection c: the frame loop waits in the enqueue of a
\* DATA frame on a full data_in, the frame channel is full and the reader waits
\* to hand over one more frame.
FloodStalled(c) ==
    /\ pc[LoopT(c)] = "hsf_enqueue"
    /\ Len(dataIn[c][frame[LoopT(c)].sid]) = DataInCap
    /\ Len(frameCh[c]) = FrameChCap
    /\ pc[ReaderT(c)] = "r_deliver"

\* C23: a connection stalled by a flood of DATA frames on an undrained stream is
\* eventually closed.
C23_FloodEventuallyCloses ==
    \A c \in ConnIds : FloodStalled(c) ~> closed[c]


\* The program points of Connection.Close after the closed check.
TeardownPcs == {"Close_cancel", "Close_streams", "Close_closeStream", "Close_sock"}

\* C24: of all invocations of Close on a connection, one goes past the closed
\* check (the connection is closed exactly when one has), only that one is ever
\* inside the teardown, only it closes the socket, and a Close invocation that
\* finds the connection closed returns leaving every field of the manager, the
\* connection and its streams as it was.
C24_ClosedExactlyOnce ==
    /\ [](\A c \in ConnIds :
            /\ teardowns[c] <= 1
            /\ closed[c] <=> teardowns[c] = 1
            /\ \A t \in Threads : (pc[t] \in TeardownPcs /\ tconn[t] = c) => t = closedBy[c])
    /\ [][/\ \A t \in Threads :
               (pc[t] = "Close" /\ closed[tconn[t]] /\ pc'[t] # "Close")
                   => UNCHANGED <<mgrVars, connVars, strVars, inVars, regVars, hvVars, rhVars, svcVars>>
          /\ \A c \in ConnIds :
               sockClosed'[c] # sockClosed[c]
                   => (~sockClosed[c] /\ closedBy[c] # Free /\ pc[closedBy[c]] = "Close_sock")]_vars
\* The frame loop's deferred Close has returned although CloseConnection's Close
\* did the teardown, or CloseConnection's Close has returned although the frame
\* loop's did.
C24_Witness ==
    \E c \in ConnIds :
        /\ teardowns[c] = 1
        /\ \/ closedBy[c] # LoopT(c) /\ pc[LoopT(c)] = "done"
           \/ \E k \in Closers : /\ closedBy[c] = LoopT(c)
                                  /\ tconn[CloserT(k)] = c
                                  /\ pc[CloserT(k)] \in {"cc_callback", "returned"}


\* C25: onStreamClosed is invoked exactly once for every stream that ends: never
\* twice, once when a DATA frame with END_STREAM or a CLOSE frame has closed the
\* stream, and (eventually) once for every stream that is alive when its
\* connection is closed.
C25_StreamClosedExactlyOnce ==
    /\ [](\A c \in ConnIds, s \in StreamIds :
            /\ streamClosedCalls[c][s] <= 1
            /\ closeCause[c][s] \in {"END_STREAM", "CLOSE"} => streamClosedCalls[c][s] = 1)
    /\ \A c \in ConnIds, s \in StreamIds :
            (closed[c] /\ s \in streams[c]) ~> (streamClosedCalls[c][s] = 1)


\* C26: the latest RegisterConnection call failed with MAX_CONNECTIONS exactly
\* when the map held maxConnections entries, with CONNECTION_EXISTS exactly when
\* it did not and the id was in the map, and succeeded otherwise; the map never
\* holds more than maxConnections entries; and a failed call leaves the map and
\* every goroutine as they were: no frame loop is started and none is replaced.
C26_RegisterConnectionErrors ==
    /\ [](/\ Cardinality(connections) <= maxConnections
          /\ rcLog.err = "MAX_CONNECTIONS" <=>
                (rcLog.id # 0 /\ Cardinality(rcLog.before) >= maxConnections)
          /\ rcLog.err = "CONNECTION_EXISTS" <=>
                (rcLog.id \in rcLog.before /\ Cardinality(rcLog.before) < maxConnections)
          /\ rcLog.err = "nil" => rcLog.id \in connections \/ rcLog.id \in registered)
    /\ [][(rcLog' # rcLog /\ rcLog'.err # "nil")
             => UNCHANGED <<connections, registered, pc, connVars>>]_vars
\* Both errors have been returned: CONNECTION_EXISTS for an id in a map with
\* room, MAX_CONNECTIONS by a full map.
C26_Witness ==
    /\ {"MAX_CONNECTIONS", "CONNECTION_EXISTS"} \subseteq rcLog.seen
    /\ rcLog.err = "MAX_CONNECTIONS"
    /\ Cardinality(connections) = maxConnections


\* C27: once CloseConnection(id) has returned nil, GetConnection(id) does not
\* find the connection; a CloseConnection that returns CONNECTION_NOT_FOUND has
\* changed nothing but its caller's own position, goes no further, and the
\* callback count changes only in a caller that found its connection.
C27_CloseConnectionResult ==
    /\ [](\A k \in Closers :
            pc[CloserT(k)] = "returned" => ~GetConnectionOk(tconn[CloserT(k)]))
    /\ [][/\ \A k \in Closers :
               /\ (pc[CloserT(k)] # "notfound" /\ pc'[CloserT(k)] = "notfound")
                     => UNCHANGED <<mgrVars, connVars, strVars, inVars, regVars, hvVars, rhVars, svcVars>>
               /\ pc[CloserT(k)] = "notfound" => pc'[CloserT(k)] = "notfound"
          /\ cbCount' # cbCount
               => \E k \in Closers : /\ pc[CloserT(k)] = "cc_callback"
                                      /\ pc'[CloserT(k)] = "returned"
                                      /\ tconn[CloserT(k)] \in registered]_vars
\* CloseConnection has returned nil for a connection that was registered.
C27_Witness ==
    \E k \in Closers : /\ pc[CloserT(k)] = "returned"
                        /\ tconn[CloserT(k)] \in registered
                        /\ cbCount[tconn[CloserT(k)]] = 1


\* Caller i's UnregisterConnectionTunnels call returns in this step.
UctReturns(i) ==
    \/ pc[RegT(i)] = "UnregisterConnectionTunnels_loop" /\ pc'[RegT(i)] = "idle"
    \/ pc[RegT(i)] = "idle" /\ pc'[RegT(i)] = "idle" /\ uct'[i] # uct[i]

\* C30: when an UnregisterConnectionTunnels(c) call that ran with no other
\* registry call in progress returns, no record with connection c is left in the
\* forward index, the reverse index has no domain for c, and the records and the
\* reverse entries of every other connection are those of before the call.
C30_UnregisterConnectionTunnelsAlone ==
    [][\A i \in RegCallers :
         (UctReturns(i) /\ uct'[i].alone) =>
            LET c == uct'[i].c
                before == uct'[i].before
            IN /\ \A d \in FullDomains : tunnels'[d] = NoTunnel \/ tunnels'[d].conn # c
               /\ connTunnels'[c] = {}
               /\ \A d \in FullDomains :
                    (before.tunnels[d] # NoTunnel /\ before.tunnels[d].conn # c)
                        => tunnels'[d] = before.tunnels[d]
               /\ \A c2 \in AllConns \ {c} : connTunnels'[c2] = before.connTunnels[c2]]_vars


\* C28: a RegisterTunnel call ends with DOMAIN_ALREADY_REGISTERED exactly when
\* the full domain has a record of another connection, and then leaves both
\* indices and the record as they were; the record of a full domain is never
\* replaced by another one; a call by the connection that holds the full domain
\* adds nothing to either index and returns the record that was there, with the
\* call's metadata and the time of the call as its last access.
C28_DuplicateDomain ==
    /\ [](regLog.outcome = "DOMAIN_ALREADY_REGISTERED" <=>
            (regLog.existing # NoTunnel /\ regLog.existing.conn # regLog.conn))
    /\ [][/\ (regLog' # regLog /\ regLog'.outcome = "DOMAIN_ALREADY_REGISTERED")
               => UNCHANGED <<tunnels, connTunnels, tunnelMeta, tunnelAccess>>
          /\ \A d \in FullDomains :
               tunnels[d] # NoTunnel => tunnels'[d] \in {tunnels[d], NoTunnel}
          /\ (regLog' # regLog /\ regLog'.outcome = "refresh")
               => /\ UNCHANGED <<tunnels, connTunnels>>
                  /\ regLog'.ret = tunnels[regLog'.fd]
                  /\ regLog'.ret.conn = regLog'.conn
                  /\ tunnelMeta'[regLog'.fd] = regLog'.meta
                  /\ tunnelAccess'[regLog'.fd] = now]_vars
\* A full domain has been refused to another connection, and a record has been
\* refreshed, later than its creation and with new metadata, by its own.
C28_Witness ==
    /\ {"DOMAIN_ALREADY_REGISTERED", "refresh"} \subseteq regLog.seen
    /\ regLog.outcome = "refresh"
    /\ regLog.meta # NoMeta
    /\ regLog.at > 0
    /\ tunnelMeta[regLog.fd] = regLog.meta
    /\ tunnelAccess[regLog.fd] = regLog.at

\* C29: GetTunnel returns for every full domain what the latest register or
\* unregister of that domain left there: the record with the connection and the
\* agent registered, or not-found after an unregister; an UnregisterTunnel that
\* finds no record returns TUNNEL_NOT_FOUND and changes neither index.
C29_GetAfterRegisterUnregister ==
    /\ [](/\ \A d \in FullDomains : GetTunnelOp(tunnels, d) = lastOp[d]
          /\ unregLog.err = "TUNNEL_NOT_FOUND" <=>
                (unregLog.d # "" /\ unregLog.existing = NoTunnel))
    /\ [][\A i \in RegCallers :
            ( /\ pc[RegT(i)] = "UnregisterTunnel_delete"
              /\ pc'[RegT(i)] # "UnregisterTunnel_delete"
              /\ GetTunnelOp(tunnels, regDom[i]) = NoTunnel )
            => /\ UNCHANGED <<tunnels, connTunnels>>
               /\ unregLog'.err = "TUNNEL_NOT_FOUND"
               /\ pc'[RegT(i)] = regRet[i]]_vars
\* A full domain was registered and unregistered, and the latest unregister of it
\* found nothing.
C29_Witness ==
    /\ RegistryQuiescent
    /\ regLog.outcome = "create"
    /\ unregLog.d = regLog.fd
    /\ unregLog.err = "TUNNEL_NOT_FOUND"
    /\ GetTunnelOp(tunnels, regLog.fd) = NoTunnel
    /\ connTunnels[regLog.conn] = {}


\* The HandleAuth calls that succeeded.
AuthSuccesses == {i \in 1..Len(authLog) : authLog[i].res.err = "nil"}

\* C31: a successful HandleAuth returns the agent id the validator gives for the
\* payload's token, so two successful calls with the same token return the same
\* agent id whatever the other fields of their payloads; the payload's agent_id
\* is found in the result only when it is the value of a metadata entry.
C31_ValidatorIsAuthoritative ==
    /\ \A i \in AuthSuccesses :
        /\ validateToken.installed
        /\ authLog[i].res.agent = validateToken.of[authLog[i].frame.payload.token].agent
        /\ (authLog[i].frame.payload.agent_id # ""
              /\ authLog[i].frame.payload.metadata = EmptyMap)
            => authLog[i].res.meta["client_agent_id"] = authLog[i].frame.payload.agent_id
    /\ \A i, j \in AuthSuccesses :
        authLog[i].frame.payload.token = authLog[j].frame.payload.token
            => authLog[i].res.agent = authLog[j].res.agent
\* Two calls with one token have succeeded, one payload naming an agent id that
\* is not the validator's, the other naming none and differing in version and
\* capabilities.
C31_Witness ==
    /\ Len(authLog) = 2
    /\ AuthSuccesses = {1, 2}
    /\ authLog[1].frame.payload.token = authLog[2].frame.payload.token
    /\ authLog[1].frame.payload.agent_id = "mallory"
    /\ authLog[2].frame.payload.agent_id = ""
    /\ authLog[1].frame.payload.version # authLog[2].frame.payload.version
    /\ authLog[1].frame.payload.capabilities # authLog[2].frame.payload.capabilities
    /\ authLog[1].res.agent # "mallory"


\* C32: GetDomainLimit returns the limit installed for the domain and whether
\* there is one, and it completes with the domain-table lock free: the call does
\* not end in a fatal error of the runtime, and once no GetDomainLimit call is
\* in progress none of them holds domainMu any more.
C32_GetDomainLimitReturns ==
    /\ ~limiterFatal
    /\ \A i \in QuotaCallers :
        gdlLog[i].of = "domain" =>
            gdlLog[i].limit = gdlLog[i].at /\ gdlLog[i].ok = gdlLog[i].at.set
    /\ (\A i \in QuotaCallers : pc[QuotaT(i)] # "GetDomainLimit_lookup") => domainMu.readers = 0


\* The frame loop of connection c is about to look up the stream of an
\* OPEN_STREAM frame whose id is in the stream table.
DuplicateOpen(c) ==
    /\ pc[LoopT(c)] = "hsf_lookup"
    /\ frame[LoopT(c)].type = "OPEN_STREAM"
    /\ frame[LoopT(c)].sid \in streams[c]
\* What the handling of an OPEN_STREAM frame does to the stream table of c.
OpenStreamEffect(c) ==
    LET f == frame[LoopT(c)] IN
    /\ (pc[LoopT(c)] = "hsf_lookup" /\ pc'[LoopT(c)] # "hsf_lookup" /\ f.type = "OPEN_STREAM") =>
        /\ streams' = streams /\ strVars' = strVars
        /\ pc'[LoopT(c)] = (IF f.sid \in streams[c] THEN "Close" ELSE "hsf_create")
    /\ (pc[LoopT(c)] = "hsf_create" /\ pc'[LoopT(c)] # "hsf_create") =>
        /\ f.type = "OPEN_STREAM" /\ f.sid \notin streams[c]
        /\ streams'[c] = streams[c] \cup {f.sid}
    /\ streams'[c] \ streams[c] # {} => pc[LoopT(c)] = "hsf_create"

\* C33: an OPEN_STREAM frame creates a stream exactly when its id is not in the
\* stream table; one whose id is in the table creates nothing, changes no
\* stream, makes the frame loop exit, and the connection is then closed (frame
\* loop returned, closed flag set, socket closed).
C33_DuplicateOpenIsFatal ==
    /\ [][\A c \in ConnIds : OpenStreamEffect(c)]_vars
    /\ \A c \in ConnIds : DuplicateOpen(c) ~> ClosedByManager(c)


\* The frame loop of connection c takes a control frame from its frame channel.
TakesControlFrame(c) ==
    /\ pc[LoopT(c)] = "select"
    /\ frameCh[c] # <<>>
    /\ IsControlFrame(Head(frameCh[c]))
    /\ frameCh'[c] = Tail(frameCh[c])

C35_LastAccessMonotone ==
    [][/\ \A d \in FullDomains :
            (tunnels[d] # NoTunnel /\ tunnels'[d] # NoTunnel) => tunnelAccess'[d] >= tunnelAccess[d]
       /\ gtLog' # gtLog =>
            /\ tunnels' = tunnels /\ tunnelAccess' = tunnelAccess
            /\ gtLog'.ok = (tunnels[gtLog'.d] # NoTunnel)
            /\ gtLog'.ret = tunnels[gtLog'.d]]_vars
\* A goroutine started by a lookup at time 0 is still to run although the same
\* connection has since registered the domain again at a later time, and the
\* latest lookup returned the tunnel while an earlier goroutine was pending.
C35_Witness ==
    \E k \in 1..Len(pendingRefresh) :
        /\ pendingRefresh[k].started = 0
        /\ tunnelAccess[pendingRefresh[k].d] > 0
        /\ regLog.outcome = "refresh"
        /\ regLog.fd = pendingRefresh[k].d
        /\ gtLog.ok /\ gtLog.pending > 0


\* Caller i, inside UnregisterConnectionTunnels, removes the record under one
\* of the domains it copied.
UctRemoves(i) ==
    /\ pc[RegT(i)] = "UnregisterTunnel_delete"
    /\ regRet[i] = "UnregisterConnectionTunnels_loop"
    /\ pc'[RegT(i)] = "UnregisterTunnel_untrack"
    /\ tunnels'[regDom[i]] = NoTunnel

\* C36: UnregisterConnectionTunnels(c) removes no tunnel of another connection,
\* whatever runs in between: a record it removes belongs to c, so a domain it
\* copied that was since unregistered and registered again by another
\* connection keeps its new tunnel.
C36_UnregisterOnlyOwnTunnels ==
    [][\A i \in RegCallers : UctRemoves(i) => tunnels[regDom[i]].conn = uct[i].c]_vars


\* C37: the manager's map holds live connections only: once the frame loop of a
\* connection has returned and the connection is closed, GetConnection no
\* longer finds its id, so that the router answers 503 for its tunnels and the
\* id does not count in len(m.connections) against max_connections.
C37_MapHoldsOnlyLive ==
    \A c \in AllConns : ClosedByManager(c) => ~GetConnectionOk(c)


\* A check of CheckRequest took a token: a rate check of a key that has a limit
\* and whose bucket held one token at least.
TookToken(seen) == seen.check \in RateChecks /\ seen.set /\ seen.level >= seen.bound

\* C38: a CheckRequest that returns an error has taken no rate token, whichever
\* of its four checks denied the request.
C38_DeniedRequestTakesNoToken ==
    \A r \in Routers :
        rErr[r] \notin {"none", "nil"} =>
            \A k \in 1..Len(rChecks[r]) : ~TookToken(rChecks[r][k])


\* Request r has been answered by waitForResponse after the close signal of its
\* stream.
AnsweredAfterClose(r) ==
    /\ pc[RouterT(r)] = "done"
    /\ rStatus[r] \in {StatusOK, StatusNoContent}

\* C39: the response of the router loses no data: when waitForResponse has
\* answered after the close signal of the stream, every payload the frame loop
\* put on data_in before that signal is in the response, in order; none is left
\* in the queue.
C39_ResponseLosesNoData ==
    \A r \in Routers :
        AnsweredAfterClose(r) =>
            /\ \A k \in 1..Len(dataIn[tconn[RouterT(r)]][rStream[r]]) :
                    dataIn[tconn[RouterT(r)]][rStream[r]][k] = ""


\* C40: the acceptor sends the success acknowledgement only for a connection
\* that then becomes registered and enters the frame loop; when the handshake
\* fails or RegisterConnection refuses the connection, the agent has received
\* no success acknowledgement, the socket is closed and nothing is registered.
C40_AckOnlyWhenRegistered ==
    \A c \in AllConns :
        /\ acceptor[c].ack = "success" =>
                acceptor[c].pc = "RegisterConnection" \/ c \in registered
        /\ (acceptor[c].pc = "returned" /\ c \notin registered) =>
                /\ acceptor[c].ack # "success"
                /\ sockClosed[c]
                /\ c \notin connections

====
